---- MODULE Spec2Model ----
(***************************************************************************)
(* A model of DebGPT's chat frontends (debgpt/frontend.py), of the vector  *)
(* microservice client they use (debgpt/vector_service/client.py) and of   *)
(* the map-reduce line splitter (debgpt/reader.py).                        *)
(*                                                                         *)
(* The first three specifications of the module:                           *)
(*   Spec        one frontend instance and its session                     *)
(*   SpecClient  a VectorServiceClient driven directly                     *)
(*   SpecSplit   the recursive and the explicit-stack splitter, run one    *)
(*               after the other on the same line array                    *)
(* The later sections add one specification each for the map-reduce run,   *)
(* the command line, the retry and sampling wrappers, the cache, the       *)
(* embedded vector store, the policy reader and the vector microservice.   *)
(***************************************************************************)
EXTENDS Integers, Sequences, FiniteSets, Bags, TLC

VARIABLES
    kind,       \* the frontend class that was constructed
    topK,       \* AbstractFrontend._vector_top_k
    session,    \* AbstractFrontend.session
    ctx,        \* AbstractFrontend._vector_context_prompt
    client,     \* AbstractFrontend._vector_client (and the client of SpecClient)
    net,        \* the microservice: how many more HTTP requests it answers
    lastInput,  \* the type of the input of the last call on the frontend
    cl_ret,     \* SpecClient: what the last client call returned
    cl_http,    \* SpecClient: HTTP requests issued so far
    cl_calls,   \* SpecClient: client calls made so far
    cl_unreach, \* SpecClient: every HTTP request raises
    sp_lines,   \* SpecSplit: the line array
    sp_size,    \* SpecSplit: chunk_size
    sp_pc,      \* SpecSplit: where the run stands
    sp_rec,     \* SpecSplit: what _mapreduce_chunk_lines returned
    sp_stack,   \* SpecSplit: stack of _mapreduce_chunk_lines_norecussion
    sp_result,  \* SpecSplit: result of _mapreduce_chunk_lines_norecussion
    mr_chunks,  \* SpecReduce: chunks, the texts handed to the map phase
    mr_par,     \* SpecReduce: ag.mapreduce_parallelism of the parallel run
    mr_pc,      \* SpecReduce: where mapreduce_super_long_context stands
    mr_results, \* SpecReduce: results
    mr_new,     \* SpecReduce: new_results (parallel: what executor.map holds)
    mr_run,     \* SpecReduce: positions a worker thread is working on
    mr_out,     \* SpecReduce: what each run produced
    ga_argv,    \* SpecGather: the command line
    ga_chunks,  \* SpecGather: the chunks --mapreduce loads
    ga_inst,    \* SpecGather: ag.frontend_instance
    ga_ret,     \* SpecGather: what gather_information_ordered did
    ma_pc,      \* SpecMain: where main stands
    ma_argv,    \* SpecMain: the command line (context flags and --ask)
    ma_opts,    \* SpecMain: ag.quit, the --inplace git option, the chunks
    ma_msg,     \* SpecMain: msg
    ma_exit,    \* SpecMain: the exit status, once the process has ended
    ma_dumped,  \* SpecMain: f.dump() has run
    ma_console, \* SpecMain: how many messages were printed, and the last
    ma_sent,    \* SpecMain: requests sent to a model backend
    ma_line,    \* SpecMain: the line the prompt returned last, or what it raised
    ma_saved,   \* SpecMain: the files written so far, the last write first
    ma_turns,   \* SpecMain: lines read by the interactive loop
    rt_plan,    \* SpecRetry: what each attempt of the wrapped call does
    rt_pc,      \* SpecRetry: where the wrapper stands
    rt_attempts,\* SpecRetry: invocations of the wrapped call so far
    rt_slept,   \* SpecRetry: seconds spent in time.sleep
    rt_result,  \* SpecRetry: what the wrapper returned or raised
    sa_kwargs,  \* SpecSampling: OpenAIFrontend.kwargs (the keywords held)
    sa_supported, \* SpecSampling: OpenAIFrontend._sampling_params_supported
    sa_pc,      \* SpecSampling: where _chat_completions_create stands
    sa_requests,\* SpecSampling: the sampling keywords of each request sent
    sa_exc,     \* SpecSampling: the keywords the pending error names
    sa_start,   \* SpecSampling: the keywords held when the call began
    sa_calls,   \* SpecSampling: calls of _chat_completions_create so far
    ca_store,   \* SpecCache: the rows of the cache table, key to value
    ca_last,    \* SpecCache: the last operation and its outcome
    ca_ops,     \* SpecCache: operations made so far
    ca_now,     \* SpecCache: the clock, in days
    us_raised,  \* SpecReject: the exception the last update_session raised
    vd_rows,    \* SpecRetrieve: the rows of the vectors table
    vd_next,    \* SpecRetrieve: the id AUTOINCREMENT gives the next row
    vd_ret,     \* SpecRetrieve: what the last retrieval returned
    sv_rows,    \* SpecService: the rows of the messages table
    sv_points,  \* SpecService: the points of the vector index collection
    sv_next,    \* SpecService: how many ids uuid4 has given out
    sv_resp,    \* SpecService: the last answer given, and to what request
    sv_reqs,    \* SpecService: requests that have arrived so far
    sv_run,     \* SpecService: the bag of the handlers under way
    po_lines,   \* SpecPolicy: DebianPolicy.lines
    po_ret      \* SpecPolicy: the last section asked for and the outcome

reduceVars == <<mr_chunks, mr_par, mr_pc, mr_results, mr_new, mr_run, mr_out>>
gatherVars == <<ga_argv, ga_chunks, ga_inst, ga_ret>>
mainVars == <<ma_pc, ma_argv, ma_opts, ma_msg, ma_exit, ma_dumped, ma_console,
              ma_sent, ma_line, ma_saved, ma_turns>>

retryVars == <<rt_plan, rt_pc, rt_attempts, rt_slept, rt_result>>
samplingVars == <<sa_kwargs, sa_supported, sa_pc, sa_requests, sa_exc, sa_start,
                  sa_calls>>
cacheVars == <<ca_store, ca_last, ca_ops, ca_now>>
rejectVars == <<us_raised>>
dbVars == <<vd_rows, vd_next, vd_ret>>
serviceVars == <<sv_rows, sv_points, sv_next, sv_resp, sv_reqs, sv_run>>
policyVars == <<po_lines, po_ret>>
tailVars == <<serviceVars, policyVars>>
moreVars == <<rejectVars, dbVars, tailVars>>
libVars == <<retryVars, samplingVars, cacheVars, moreVars>>

laterVars == <<reduceVars, gatherVars, mainVars, libVars>>

vars == <<kind, topK, session, ctx, client, net, lastInput,
          cl_ret, cl_http, cl_calls, cl_unreach,
          sp_lines, sp_size, sp_pc, sp_rec, sp_stack, sp_result,
          laterVars>>

clientVars == <<cl_ret, cl_http, cl_calls, cl_unreach>>
splitVars == <<sp_lines, sp_size, sp_pc, sp_rec, sp_stack, sp_result>>

(* Python's None, where a string is expected *)
None == "None"

SplitIdle ==
    /\ sp_lines = <<>> /\ sp_size = 0 /\ sp_pc = "idle"
    /\ sp_rec = <<>> /\ sp_stack = <<>> /\ sp_result = <<>>

NoOutcome ==
    [ser_map |-> <<>>, ser_out |-> <<>>, par_map |-> <<>>, par_out |-> <<>>,
     overtaken |-> FALSE]

ReduceIdle ==
    /\ mr_chunks = <<>> /\ mr_par = 0 /\ mr_pc = "idle"
    /\ mr_results = <<>> /\ mr_new = <<>> /\ mr_run = {} /\ mr_out = NoOutcome

NotCalled == [called |-> FALSE, printed |-> <<>>]

GatherIdle ==
    /\ ga_argv = <<>> /\ ga_chunks = <<>> /\ ga_inst = "absent"
    /\ ga_ret = NotCalled

NoOpts ==
    [quit |-> TRUE, git |-> FALSE, hide_first |-> FALSE, multiline |-> FALSE,
     chunks |-> <<>>]

NoConsole == [n |-> 0, last |-> ""]

(* The exit status of a process that has not ended *)
Running == -1

MainIdle ==
    /\ ma_pc = "idle" /\ ma_argv = <<>> /\ ma_opts = NoOpts /\ ma_msg = <<>>
    /\ ma_exit = Running /\ ma_dumped = FALSE /\ ma_console = NoConsole
    /\ ma_sent = 0 /\ ma_line = <<>> /\ ma_saved = <<>> /\ ma_turns = 0

NoResult == [how |-> "nothing"]

RetryIdle ==
    /\ rt_plan = <<>> /\ rt_pc = "idle" /\ rt_attempts = 0 /\ rt_slept = 0
    /\ rt_result = NoResult

SamplingIdle ==
    /\ sa_kwargs = {} /\ sa_supported = None /\ sa_pc = "idle"
    /\ sa_requests = <<>> /\ sa_exc = {} /\ sa_start = {} /\ sa_calls = 0

NoOperation == [op |-> None]

CacheIdle ==
    ca_store = {} /\ ca_last = NoOperation /\ ca_ops = 0 /\ ca_now = 0

RejectIdle == us_raised = None

NotRetrieved == [fn |-> None]

DbIdle == vd_rows = <<>> /\ vd_next = 1 /\ vd_ret = NotRetrieved

NoRequest == [op |-> None, n |-> 0]

ServiceIdle ==
    /\ sv_rows = {} /\ sv_points = {} /\ sv_next = 0 /\ sv_resp = NoRequest
    /\ sv_reqs = 0 /\ sv_run = EmptyBag

NotAsked == [asked |-> FALSE]

PolicyIdle == po_lines = <<>> /\ po_ret = NotAsked

TailIdle == ServiceIdle /\ PolicyIdle

MoreIdle == RejectIdle /\ DbIdle /\ TailIdle

LibIdle == RetryIdle /\ SamplingIdle /\ CacheIdle /\ MoreIdle

LaterIdle == ReduceIdle /\ GatherIdle /\ MainIdle /\ LibIdle

-----------------------------------------------------------------------------
(* Bounds *)

MaxLen == 3         \* longest session the model explores
MaxOk == 2          \* most HTTP requests answered before the service fails
MaxCalls == 6       \* SpecClient: client calls explored
MaxLines == 4       \* SpecSplit: longest line array
MaxChunk == 6       \* SpecSplit: largest chunk_size

-----------------------------------------------------------------------------
(* The microservice as the client sees it.  net = NeverFails: every request *)
(* is answered; net = n >= 0: the next n requests are answered and the one  *)
(* after raises requests.RequestException.                                  *)

NeverFails == -1

HttpOk(n) == n # 0

HttpNext(n) == IF n > 0 THEN n - 1 ELSE n

-----------------------------------------------------------------------------
(* VectorServiceClient *)

NoClient ==
    [present |-> FALSE, enabled |-> FALSE, checked |-> FALSE, available |-> FALSE]

NewClient(en) ==
    [present |-> TRUE, enabled |-> en, checked |-> FALSE, available |-> FALSE]

(* _healthcheck: GET /healthz; True unless the request raises *)
healthcheck(n) == HttpOk(n)

(* _ready.  The result carries the client after the call, the service after *)
(* it, the returned flag and the number of HTTP requests issued.            *)
readyKeepEnabled(c, n) ==
    IF ~c.enabled THEN [c |-> c, n |-> n, ok |-> FALSE, http |-> 0]
    ELSE IF ~c.checked
         THEN LET h == healthcheck(n)
              IN  [c |-> [c EXCEPT !.available = h, !.checked = TRUE],
                   n |-> HttpNext(n), ok |-> h, http |-> 1]
         ELSE [c |-> c, n |-> n, ok |-> c.available, http |-> 0]

ready(c, n) ==
    IF ~c.enabled THEN [c |-> c, n |-> n, ok |-> FALSE, http |-> 0]
    ELSE IF ~c.checked
         THEN LET h == healthcheck(n)
              IN  [c |-> [c EXCEPT !.available = h, !.checked = TRUE,
                                   !.enabled = IF h THEN c.enabled ELSE FALSE],
                   n |-> HttpNext(n), ok |-> h, http |-> 1]
         ELSE [c |-> c, n |-> n, ok |-> c.available, http |-> 0]

(* What GET /context can carry: a list of snippets, an empty list, or JSON  *)
(* that is no sequence.                                                     *)
Snippets == <<"snippet">>
ContextData == {"hits", "empty", "object"}

(* query_context *)
query_context(c, n, data) ==
    LET get(r) ==
            IF ~r.ok
            THEN [c |-> r.c, n |-> r.n, ret |-> <<>>, http |-> r.http]
            ELSE IF HttpOk(r.n)
                 THEN [c |-> r.c, n |-> HttpNext(r.n),
                       ret |-> IF data = "hits" THEN Snippets ELSE <<>>,
                       http |-> r.http + 1]
                 ELSE [c |-> [r.c EXCEPT !.enabled = FALSE], n |-> HttpNext(r.n),
                       ret |-> <<>>, http |-> r.http + 1]
    IN  get(ready(c, n))

(* The payload of a POST /message the microservice answered, kept with    *)
(* the client where a specification watches the requests (SpecMirror)      *)
posted(c, role, text) ==
    IF "posted" \in DOMAIN c
    THEN [c EXCEPT !.posted = Append(@, [role |-> role, text |-> text])]
    ELSE c

(* save_message *)
save_message(c, n, role, text) ==
    LET post(r) ==
            IF ~r.ok
            THEN [c |-> r.c, n |-> r.n, ret |-> None, http |-> r.http]
            ELSE IF HttpOk(r.n)
                 THEN [c |-> posted(r.c, role, text), n |-> HttpNext(r.n),
                       ret |-> "id",
                       http |-> r.http + 1]
                 ELSE [c |-> [r.c EXCEPT !.enabled = FALSE], n |-> HttpNext(r.n),
                       ret |-> None, http |-> r.http + 1]
    IN  post(ready(c, n))

-----------------------------------------------------------------------------
(* Chat messages *)

Roles == {"system", "user", "assistant"}

Msg(r, c) == [role |-> r, content |-> c]

(* _check, as a predicate: TRUE when none of its assertions fails *)
check(messages) ==
    \A i \in DOMAIN messages :
        /\ {"role", "content"} \subseteq DOMAIN messages[i]
        /\ messages[i].role \in Roles

(* str.strip on the texts the model draws *)
strip(text) == IF text = " " THEN "" ELSE text

SystemMessage == "system message"    \* args.system_message
CtxPrompt == "You have access to the following retrieved conversation snippets."
ErrorText == "str(e)"                \* the text of a raised exception

IsInjected(m) == m.role = "system" /\ m.content = CtxPrompt

-----------------------------------------------------------------------------
(* AbstractFrontend.  F is the part of the instance the operations change:  *)
(* [session, ctx, client, net].                                             *)

vector_active(F) == F.client.present /\ F.client.enabled

(* _vector_prepare_context *)
vector_prepare_context(F, query, k, data) ==
    IF query = "" THEN [F EXCEPT !.ctx = None]
    ELSE IF ~vector_active(F) \/ k <= 0 THEN [F EXCEPT !.ctx = None]
    ELSE LET found(r) ==
                 [F EXCEPT !.client = r.c, !.net = r.n,
                           !.ctx = IF r.ret = <<>> THEN None ELSE CtxPrompt]
         IN  found(query_context(F.client, F.net, data))

(* _vector_after_append *)
vector_after_append(F, message, k, data) ==
    IF ~vector_active(F) THEN F
    ELSE IF message.role = "user"
    THEN LET saved(F1, s) == [F1 EXCEPT !.client = s.c, !.net = s.n]
             prepared(F1) ==
                 saved(F1, save_message(F1.client, F1.net, "user",
                                        strip(message.content)))
         IN  prepared(vector_prepare_context(F, strip(message.content), k, data))
    ELSE IF message.role = "assistant"
    THEN LET saved(s) == [F EXCEPT !.client = s.c, !.net = s.n, !.ctx = None]
         IN  saved(save_message(F.client, F.net, "assistant",
                                strip(message.content)))
    ELSE F

(* self.session.append(message) *)
session_append_replace(s, message) == <<message>>

session_append(s, message) == Append(s, message)

(* new_message = {'role': 'user', 'content': messages} *)
new_user_message_badrole(text) == Msg("human", text)

new_user_message(text) == Msg("user", text)

(* update_session; input is [type, val] with type list, dict or str.  The   *)
(* result is the instance after the call and whether _check raised.         *)
update_session(F, input, k, data) ==
    LET appended(m) ==
            vector_after_append(
                [F EXCEPT !.session = session_append(F.session, m)], m, k, data)
        checked(F1) == [F |-> F1, raised |-> ~check(F1.session)]
    IN  IF input.type \notin {"list", "dict", "str"}
        THEN [F |-> F, raised |-> TRUE]    \* raise TypeError(type(messages))
        ELSE checked(IF input.type = "list"
                     THEN [F EXCEPT !.session = input.val]
                     ELSE IF input.type = "dict" THEN appended(input.val)
                     ELSE appended(new_user_message(input.val)))

(* _messages_for_llm *)
messages_for_llm(F) ==
    LET base == F.session
        n == Len(base)
    IN  IF base = <<>> \/ F.ctx = None THEN base
        ELSE IF base[n].role # "user" THEN base
        ELSE SubSeq(base, 1, n - 1) \o <<Msg("system", F.ctx), base[n]>>


(* How a query ends: the instance it leaves, and whether it raised *)
Raised(F) == [F |-> F, raised |-> TRUE]

Returned(u) == [F |-> u.F, raised |-> u.raised]

(* EchoFrontend.query and VectorEchoFrontend.query *)
query_echo(F, input, k, data) ==
    LET new_message(response) ==
            [type |-> "dict", val |-> Msg("assistant", response)]
        updated(u) ==
            IF u.raised \/ u.F.session = <<>> THEN Raised(u.F)
            ELSE Returned(update_session(
                     u.F, new_message(u.F.session[Len(u.F.session)].content),
                     k, data))
    IN  updated(update_session(F, input, k, data))

(* OpenAIFrontend.query (inherited by the OpenAI-compatible frontends) and  *)
(* AnthropicFrontend.query: fails is the provider call raising              *)
query_openai(F, input, k, data, reply, fails) ==
    LET new_message == [type |-> "dict", val |-> Msg("assistant", reply)]
        updated(u) ==
            IF u.raised THEN Raised(u.F)
            ELSE IF fails THEN Raised(u.F)
            ELSE Returned(update_session(u.F, new_message, k, data))
    IN  updated(update_session(F, input, k, data))

(* GoogleFrontend.query *)
query_google(F, input, k, data, reply, fails) ==
    LET new_message == [type |-> "dict", val |-> Msg("assistant", reply)]
        updated(u) ==
            IF u.raised \/ u.F.session = <<>> THEN Raised(u.F)
            ELSE IF fails THEN Raised(u.F)
            ELSE Returned(update_session(u.F, new_message, k, data))
    IN  updated(update_session(F, input, k, data))

(* The ZMQ backend: it answers with the list it was sent, extended by the   *)
(* assistant's reply.                                                       *)
zmq_backend(messages, reply) == Append(messages, Msg("assistant", reply))

(* for message in self.session[baseline_len:]: self._vector_after_append(message) *)
RECURSIVE after_each(_, _, _, _)
after_each(F, messages, k, data) ==
    IF messages = <<>> THEN F
    ELSE after_each(vector_after_append(F, Head(messages), k, data),
                    Tail(messages), k, data)

(* ZMQFrontend.query *)
query_zmq(F, input, k, data, reply, fails, data2) ==
    LET received(F1, baseline_len, new_session) ==
            IF ~check(new_session) THEN Raised(F1)
            ELSE [F |-> after_each([F1 EXCEPT !.session = new_session],
                                   SubSeq(new_session, baseline_len + 1,
                                          Len(new_session)),
                                   k, data2),
                  raised |-> FALSE]
        updated(u) ==
            IF u.raised THEN Raised(u.F)
            ELSE IF fails THEN Raised(u.F)
            ELSE received(u.F, Len(u.F.session),
                          zmq_backend(messages_for_llm(u.F), reply))
    IN  updated(update_session(F, input, k, data))

EchoKinds == {"echo", "vectorecho"}
OpenAIKinds == {"openai", "xai"}
Kinds == EchoKinds \cup OpenAIKinds \cup {"google", "zmq"}

(* self.query(...) of the constructed class *)
query(kd, F, input, k, data, reply, fails, data2) ==
    IF kd \in EchoKinds THEN query_echo(F, input, k, data)
    ELSE IF kd = "google" THEN query_google(F, input, k, data, reply, fails)
    ELSE IF kd = "zmq" THEN query_zmq(F, input, k, data, reply, fails, data2)
    ELSE query_openai(F, input, k, data, reply, fails)

(* __call__: query, and on any exception the text of the exception is       *)
(* appended as a system message before it is raised again                   *)
call(kd, F, input, k, data, reply, fails, data2) ==
    LET e == [type |-> "dict", val |-> Msg("system", ErrorText)]
        queried(r) ==
            IF ~r.raised THEN r
            ELSE [F |-> update_session(r.F, e, k, data).F, raised |-> TRUE]
    IN  queried(query(kd, F, input, k, data, reply, fails, data2))

(* reset *)
reset(F) == [F EXCEPT !.session = <<>>, !.ctx = None]

-----------------------------------------------------------------------------
(* Construction *)

(* OpenAIFrontend.__init__: no system message for o1-mini, o1-preview, o3-mini *)
openai_init(reasoning) ==
    IF reasoning THEN <<>> ELSE <<Msg("system", SystemMessage)>>

(* XAIFrontend.__init__ (NvidiaFrontend.__init__ is the same): it runs      *)
(* OpenAIFrontend.__init__ and then appends the system message itself       *)
xai_init(reasoning) == Append(openai_init(reasoning), Msg("system", SystemMessage))

InitSession(kd, reasoning) ==
    IF kd = "openai" THEN openai_init(reasoning)
    ELSE IF kd = "xai" THEN xai_init(reasoning)
    ELSE <<>>

-----------------------------------------------------------------------------
(* Inputs *)

Texts == {" ", "q"}
Replies == {"r"}

StrInputs == {[type |-> "str", val |-> t] : t \in Texts}

DictInputs ==
    {[type |-> "dict", val |-> m] :
        m \in {Msg("user", "q"), Msg("assistant", "r"), Msg("system", SystemMessage)}}

ListInputs ==
    {[type |-> "list", val |-> l] :
        l \in {<<>>, <<Msg("user", "q")>>,
               <<Msg("system", SystemMessage), Msg("user", " ")>>}}

Inputs == StrInputs \cup DictInputs \cup ListInputs

(* What GET /context answers a frontend's query with *)
FrontendData == {"hits", "empty"}

NoReturn == [fn |-> None, id |-> None, list |-> <<>>]

-----------------------------------------------------------------------------
(* Spec: one frontend *)

Self == [session |-> session, ctx |-> ctx, client |-> client, net |-> net]

Becomes(F) ==
    /\ Len(F.session) <= MaxLen
    /\ session' = F.session
    /\ ctx' = F.ctx
    /\ client' = F.client
    /\ net' = F.net

Init ==
    /\ kind \in Kinds
    /\ \E reasoning \in BOOLEAN : session = InitSession(kind, reasoning)
    /\ ctx = None
    /\ \/ /\ client = NoClient
          /\ topK = 0
          /\ net = NeverFails
       \/ /\ kind # "echo"
          /\ client = NewClient(TRUE)
          /\ topK \in {0, 2}
          /\ net \in {NeverFails} \cup (0 .. MaxOk)
    /\ lastInput = None
    /\ cl_ret = NoReturn /\ cl_http = 0 /\ cl_calls = 0 /\ cl_unreach = FALSE
    /\ SplitIdle
    /\ LaterIdle

UpdateSession(input) ==
    /\ \E data \in FrontendData :
          Becomes(update_session(Self, input, topK, data).F)
    /\ lastInput' = input.type
    /\ UNCHANGED <<kind, topK>>
    /\ UNCHANGED clientVars
    /\ UNCHANGED splitVars
    /\ UNCHANGED laterVars

Outcome(r, input) ==
    /\ Becomes(r.F)
    /\ lastInput' = input.type
    /\ UNCHANGED <<kind, topK>>
    /\ UNCHANGED clientVars
    /\ UNCHANGED splitVars
    /\ UNCHANGED laterVars

Query(input) ==
    \E data \in FrontendData, reply \in Replies, fails \in BOOLEAN :
      \E data2 \in IF kind = "zmq" THEN FrontendData ELSE {data} :
        Outcome(query(kind, Self, input, topK, data, reply, fails, data2), input)

Call(input) ==
    \E data \in FrontendData, reply \in Replies, fails \in BOOLEAN :
      \E data2 \in IF kind = "zmq" THEN FrontendData ELSE {data} :
        Outcome(call(kind, Self, input, topK, data, reply, fails, data2), input)

Reset ==
    /\ Becomes(reset(Self))
    /\ lastInput' = None
    /\ UNCHANGED <<kind, topK>>
    /\ UNCHANGED clientVars
    /\ UNCHANGED splitVars
    /\ UNCHANGED laterVars

Next ==
    \/ \E input \in Inputs : UpdateSession(input)
    \/ \E input \in Inputs : Query(input)
    \/ \E input \in Inputs : Call(input)
    \/ Reset

Spec == Init /\ [][Next]_vars


-----------------------------------------------------------------------------
(* SpecClient: save_message and query_context called on one client.  Each   *)
(* call meets the service in any state, unless the service is unreachable.  *)

Service == IF cl_unreach THEN {0} ELSE {NeverFails} \cup (0 .. MaxOk)

InitClient ==
    /\ kind = None /\ topK = 0 /\ session = <<>> /\ ctx = None
    /\ lastInput = None
    /\ net = NeverFails
    /\ \E en \in BOOLEAN : client = NewClient(en)
    /\ cl_unreach \in BOOLEAN
    /\ cl_ret = NoReturn /\ cl_http = 0 /\ cl_calls = 0
    /\ SplitIdle
    /\ LaterIdle

ClientReturns(r, fn) ==
    /\ cl_calls < MaxCalls
    /\ client' = r.c
    /\ cl_http' = cl_http + r.http
    /\ cl_calls' = cl_calls + 1
    /\ cl_ret' = IF fn = "save_message"
                 THEN [fn |-> fn, id |-> r.ret, list |-> <<>>]
                 ELSE [fn |-> fn, id |-> None, list |-> r.ret]
    /\ UNCHANGED <<kind, topK, session, ctx, net, lastInput, cl_unreach>>
    /\ UNCHANGED splitVars
    /\ UNCHANGED laterVars

ClientSave ==
    \E n \in Service :
        ClientReturns(save_message(client, n, "user", "q"), "save_message")

ClientQuery ==
    \E n \in Service, data \in ContextData :
        ClientReturns(query_context(client, n, data), "query_context")

NextClient == ClientSave \/ ClientQuery

SpecClient == InitClient /\ [][NextClient]_vars

-----------------------------------------------------------------------------
(* Claims about the frontends and the client *)

IsPrefix(s, t) == Len(s) <= Len(t) /\ SubSeq(t, 1, Len(s)) = s

(* C1 (as claimed): whenever the vector client is absent or disabled, the   *)
(* request _messages_for_llm builds is exactly the stored session.  Every   *)
(* query builds its request in the state update_session leaves, and each    *)
(* such state is a state of Spec.                                           *)
C1_NoInjectionWhenInactive ==
    ~vector_active(Self) => messages_for_llm(Self) = session

(* C2 (as claimed): the stored session never holds an injected context      *)
(* message.                                                                 *)
C2_SessionNeverHoldsContext ==
    \A i \in DOMAIN session : ~IsInjected(session[i])

(* C3: with the microservice unreachable every save_message returns None    *)
(* and every query_context returns [], the client is disabled after the     *)
(* first call and stays so, and a disabled client issues no HTTP request.   *)
C3_UnreachableDisables ==
    [][cl_unreach =>
          /\ cl_ret'.id = None
          /\ cl_ret'.list = <<>>
          /\ ~client'.enabled
          /\ (~client.enabled => cl_http' = cl_http)
          /\ cl_http' <= 1]_vars

C3_Witness ==
    /\ cl_unreach
    /\ cl_calls >= 2
    /\ cl_http = 1
    /\ cl_ret.fn = "save_message"
    /\ ~client.enabled

(* C4: every message of the session has a role and a content field, and its *)
(* role is system, user or assistant.                                       *)
C4_SessionWellFormed ==
    \A i \in DOMAIN session :
        /\ "role" \in DOMAIN session[i]
        /\ "content" \in DOMAIN session[i]
        /\ session[i].role \in {"system", "user", "assistant"}

C4_Witness ==
    /\ Len(session) >= 3
    /\ \A r \in Roles : \E i \in DOMAIN session : session[i].role = r

(* C5 (as claimed): the session holds at most one system message, and a     *)
(* system message is the first message.                                     *)
C5_OneSystemMessageFirst ==
    \A i \in DOMAIN session : session[i].role = "system" => i = 1

(* C6 (as claimed): after any update_session, query or call the session as  *)
(* it was before is a prefix of the session after.                          *)
C6_AppendOnly ==
    [][lastInput' # None => IsPrefix(session, session')]_vars

(* C6 (amended): after an update_session, query or call whose input is a    *)
(* dict or a string, the session as it was before is a prefix of the        *)
(* session after.                                                           *)
C6_AppendOnlyUnlessList ==
    [][lastInput' \in {"dict", "str"} => IsPrefix(session, session')]_vars

C6_Witness ==
    /\ Len(session) >= 3
    /\ session[1].role = "system"
    /\ session[Len(session) - 1].role = "user"
    /\ session[Len(session)].role = "assistant"


-----------------------------------------------------------------------------
(* The map-reduce splitter (debgpt/reader.py; debgpt/mapreduce.py holds the *)
(* same two functions).  A line is a sequence of code points, a dict is the *)
(* sequence of its entries in insertion order.                              *)

(* The number of bytes str.encode('utf8') gives one code point *)
utf8_len(cp) ==
    IF cp < 128 THEN 1 ELSE IF cp < 2048 THEN 2 ELSE IF cp < 65536 THEN 3 ELSE 4

(* len(x.encode('utf8')) *)
RECURSIVE encoded_len(_)
encoded_len(x) ==
    IF x = <<>> THEN 0 ELSE utf8_len(Head(x)) + encoded_len(Tail(x))

(* lines[start:end], for 0 <= start <= end <= len(lines) *)
slice(lines, start, end) == SubSeq(lines, start + 1, end)

(* sum(len(x.encode('utf8')) for x in lines[start:end]) *)
RECURSIVE sum_encoded(_)
sum_encoded(ls) ==
    IF ls = <<>> THEN 0 ELSE encoded_len(Head(ls)) + sum_encoded(Tail(ls))

chunk_size_in_bytes(lines, start, end) == sum_encoded(slice(lines, start, end))

Entry(path, start, end, lines) ==
    [path |-> path, start |-> start, end |-> end, lines |-> slice(lines, start, end)]

SameKey(a, b) == a.path = b.path /\ a.start = b.start /\ a.end = b.end

(* d[key] = value: a new key goes last, a known key keeps its place *)
dict_set(d, e) ==
    IF \E i \in DOMAIN d : SameKey(d[i], e)
    THEN [i \in DOMAIN d |-> IF SameKey(d[i], e) THEN e ELSE d[i]]
    ELSE Append(d, e)

(* {**left, **right} *)
RECURSIVE dict_merge(_, _)
dict_merge(left, right) ==
    IF right = <<>> THEN left
    ELSE dict_merge(dict_set(left, Head(right)), Tail(right))

(* _mapreduce_chunk_lines with the right half started one line late *)
RECURSIVE mapreduce_chunk_lines_gap(_, _, _, _, _)
mapreduce_chunk_lines_gap(path, start, end, lines, chunk_size) ==
    IF chunk_size_in_bytes(lines, start, end) < chunk_size
    THEN <<Entry(path, start, end, lines)>>
    ELSE IF end - start = 1
    THEN <<Entry(path, start, end, lines)>>
    ELSE LET middle == (start + end) \div 2
             left == mapreduce_chunk_lines_gap(path, start, middle, lines, chunk_size)
             right == IF middle + 1 < end
                      THEN mapreduce_chunk_lines_gap(path, middle + 1, end, lines,
                                                     chunk_size)
                      ELSE <<>>
         IN  dict_merge(left, right)

(* _mapreduce_chunk_lines *)
RECURSIVE mapreduce_chunk_lines(_, _, _, _, _)
mapreduce_chunk_lines(path, start, end, lines, chunk_size) ==
    IF chunk_size_in_bytes(lines, start, end) < chunk_size
    THEN <<Entry(path, start, end, lines)>>
    ELSE IF end - start = 1
    THEN <<Entry(path, start, end, lines)>>
    ELSE LET middle == (start + end) \div 2
             left == mapreduce_chunk_lines(path, start, middle, lines, chunk_size)
             right == mapreduce_chunk_lines(path, middle, end, lines, chunk_size)
         IN  dict_merge(left, right)

(* The size test of _mapreduce_chunk_lines_norecussion, with <= for < *)
norec_within_limit_le(lens, current_start, current_end, chunk_size) ==
    sum_encoded(slice(lens, current_start, current_end)) <= chunk_size

(* The size test of _mapreduce_chunk_lines_norecussion.  lens holds the     *)
(* lines themselves; sum_encoded adds their encoded lengths as the code's   *)
(* sum(lens[current_start:current_end]) does.                               *)
norec_within_limit(lens, current_start, current_end, chunk_size) ==
    sum_encoded(slice(lens, current_start, current_end)) < chunk_size

(* '\n'.join(lines): 10 is the newline *)
RECURSIVE join_lines(_)
join_lines(lines) ==
    IF lines = <<>> THEN <<>>
    ELSE IF Len(lines) = 1 THEN Head(lines)
    ELSE Head(lines) \o <<10>> \o join_lines(Tail(lines))

(* mapreduce_load_any_astext: one text per entry of chunkdict, in the       *)
(* dict's order; a text is its header and its body                          *)
load_any_astext(chunkdict) ==
    [i \in DOMAIN chunkdict |->
        [path |-> chunkdict[i].path, start |-> chunkdict[i].start,
         end |-> chunkdict[i].end, body |-> join_lines(chunkdict[i].lines)]]

-----------------------------------------------------------------------------
(* SpecSplit *)

Path == "policy.txt"

(* The lines drawn: empty, one byte, two bytes, and four bytes in two code  *)
(* points (U+0061 U+20AC)                                                   *)
LineSet == {<<>>, <<97>>, <<233>>, <<97, 8364>>}

RECURSIVE SeqsUpTo(_, _)
SeqsUpTo(S, n) ==
    IF n = 0 THEN {<<>>}
    ELSE LET shorter == SeqsUpTo(S, n - 1)
         IN  shorter \cup {Append(q, x) : q \in shorter, x \in S}

InitSplit ==
    /\ kind = None /\ topK = 0 /\ session = <<>> /\ ctx = None
    /\ net = NeverFails /\ client = NoClient /\ lastInput = None
    /\ cl_ret = NoReturn /\ cl_http = 0 /\ cl_calls = 0 /\ cl_unreach = FALSE
    /\ sp_lines \in SeqsUpTo(LineSet, MaxLines)
    /\ sp_size \in 1 .. MaxChunk
    /\ sp_pc = "start"
    /\ sp_rec = <<>> /\ sp_stack = <<>> /\ sp_result = <<>>
    /\ LaterIdle

SplitFrame == UNCHANGED <<kind, topK, session, ctx, client, net, lastInput,
                          cl_ret, cl_http, cl_calls, cl_unreach,
                          sp_lines, sp_size, laterVars>>

(* chunkdict = _mapreduce_chunk_lines(path, 0, len(lines), lines, ...) *)
SplitRecursive ==
    /\ sp_pc = "start"
    /\ sp_rec' = mapreduce_chunk_lines(Path, 0, Len(sp_lines), sp_lines, sp_size)
    /\ sp_pc' = "recursed"
    /\ UNCHANGED <<sp_stack, sp_result>>
    /\ SplitFrame

(* _mapreduce_chunk_lines_norecussion up to its loop *)
NorecEnter ==
    /\ sp_pc = "recursed"
    /\ sp_stack' = << <<0, Len(sp_lines)>> >>
    /\ sp_result' = <<>>
    /\ sp_pc' = "loop"
    /\ UNCHANGED sp_rec
    /\ SplitFrame

(* One round of its while loop *)
NorecStep ==
    /\ sp_pc = "loop"
    /\ sp_stack # <<>>
    /\ LET top == sp_stack[Len(sp_stack)]
           popped == SubSeq(sp_stack, 1, Len(sp_stack) - 1)
           current_start == top[1]
           current_end == top[2]
       IN  IF norec_within_limit(sp_lines, current_start, current_end, sp_size)
           THEN /\ sp_result' = dict_set(sp_result,
                                    Entry(Path, current_start, current_end, sp_lines))
                /\ sp_stack' = popped
           ELSE IF current_end - current_start = 1
           THEN /\ sp_result' = dict_set(sp_result,
                                    Entry(Path, current_start, current_end, sp_lines))
                /\ sp_stack' = popped
           ELSE LET middle == (current_start + current_end) \div 2
                IN  /\ sp_stack' = popped \o << <<current_start, middle>>,
                                                <<middle, current_end>> >>
                    /\ UNCHANGED sp_result
    /\ UNCHANGED <<sp_pc, sp_rec>>
    /\ SplitFrame

(* The loop ends and the result is returned *)
NorecReturn ==
    /\ sp_pc = "loop"
    /\ sp_stack = <<>>
    /\ sp_pc' = "done"
    /\ UNCHANGED <<sp_rec, sp_stack, sp_result>>
    /\ SplitFrame

NextSplit == SplitRecursive \/ NorecEnter \/ NorecStep \/ NorecReturn

SpecSplit == InitSplit /\ [][NextSplit]_vars

-----------------------------------------------------------------------------
(* Claims about the splitter *)

Ranges(d) == {<<d[i].start, d[i].end>> : i \in DOMAIN d}

(* The entries of d from line pos on, concatenated in range order; <<-1>>   *)
(* when no entry starts at pos before the array is used up                  *)
RECURSIVE ConcatFrom(_, _, _)
ConcatFrom(d, pos, n) ==
    IF pos >= n THEN <<>>
    ELSE LET next == {i \in DOMAIN d : d[i].start = pos /\ d[i].end > pos}
         IN  IF next = {} THEN <<-1>>
             ELSE LET i == CHOOSE j \in next : TRUE
                  IN  d[i].lines \o ConcatFrom(d, d[i].end, n)

Covers(d, lines) ==
    /\ \A i \in DOMAIN d : 0 <= d[i].start /\ d[i].start <= d[i].end
                           /\ d[i].end <= Len(lines)
    /\ \A p \in 0 .. Len(lines) - 1 :
          Cardinality({i \in DOMAIN d : d[i].start <= p /\ p < d[i].end}) = 1
    /\ ConcatFrom(d, 0, Len(lines)) = lines

(* C7: the ranges either splitter returns cover [0, len(lines)) with no     *)
(* overlap and no gap, and the chunks concatenated in range order are the   *)
(* line array.                                                              *)
C7_ChunksTileTheLines ==
    /\ sp_pc # "start" => Covers(sp_rec, sp_lines)
    /\ sp_pc = "done" => Covers(sp_result, sp_lines)

C7_Witness ==
    /\ sp_pc = "done"
    /\ Len(sp_lines) >= 3
    /\ Len(sp_rec) >= 3
    /\ Len(sp_result) >= 3
    /\ \E i \in DOMAIN sp_rec : Len(sp_rec[i].lines) >= 2

(* C8 (as claimed): every chunk returned is at most chunk_size bytes long   *)
(* when its lines are joined by newlines and encoded, or is a single line.  *)
C8_ChunkFitsOrIsOneLine ==
    sp_pc # "start" =>
        \A i \in DOMAIN sp_rec :
            \/ encoded_len(join_lines(sp_rec[i].lines)) <= sp_size
            \/ Len(sp_rec[i].lines) = 1

AsMapping(d) == {d[i] : i \in DOMAIN d}

(* C9: on the same line array and chunk_size both splitters return the same *)
(* mapping from (path, start, end) to lines.                                *)
C9_SameMapping ==
    sp_pc = "done" =>
        /\ AsMapping(sp_rec) = AsMapping(sp_result)
        /\ Len(sp_rec) = Len(sp_result)

C9_Witness ==
    /\ sp_pc = "done"
    /\ Len(sp_result) >= 3
    /\ \E i \in DOMAIN sp_result : Len(sp_result[i].lines) >= 2
    /\ \E i \in DOMAIN sp_result : Len(sp_result[i].lines) = 1

(* C10 (as claimed): the chunks handed to the map phase are in the same     *)
(* order whichever splitter ran, the original line order.                   *)
C10_SameChunkOrder ==
    sp_pc = "done" =>
        /\ load_any_astext(sp_result) = load_any_astext(sp_rec)
        /\ \A i, j \in DOMAIN sp_result :
              i < j => sp_result[i].start <= sp_result[j].start

-----------------------------------------------------------------------------
(* mapreduce_super_long_context (debgpt/cli.py; debgpt/mapreduce.py holds   *)
(* the same function).  A text is a sequence of pieces; + on Python strings *)
(* is \o.                                                                   *)

MaxChunks == 5      \* SpecReduce: longest chunk list
MaxWorkers == 3     \* SpecReduce: largest mapreduce_parallelism

ChunkTexts == {"c1", "c2"}
Question == "summarize the above contents."

(* EchoFrontend.oneshot with lossy_mode off: a function of its input *)
oneshot(message) == message

(* _pad_chunk *)
pad_chunk(chunk, question) == <<"Extract from the file part", question>> \o chunk

(* _process_chunk *)
process_chunk(chunk, question) == oneshot(pad_chunk(chunk, question))

(* The line of three backquotes that opens and closes a quoted result *)
Fence == "fence"

(* _pad_two_results *)
pad_two_results(a, b, question) ==
    <<"Extract and aggregate", question, Fence>> \o a \o <<Fence, Fence>> \o b
        \o <<Fence>>

(* _process_two_results *)
process_two_results(a, b, question) == oneshot(pad_two_results(a, b, question))

(* list(zip(results[::2], results[1::2])) *)
pairs(results) ==
    [k \in 1 .. (Len(results) \div 2) |-> <<results[2 * k - 1], results[2 * k]>>]

(* if len(results) % 2 == 1: new_results.append(results[-1]), dropping the  *)
(* carried result instead                                                   *)
carry_odd_dropped(results, new_results) == new_results

(* if len(results) % 2 == 1: new_results.append(results[-1]) *)
carry_odd(results, new_results) ==
    IF Len(results) % 2 = 1 THEN Append(new_results, results[Len(results)])
    ELSE new_results

(* return aggregated_result + two newlines *)
returned(aggregated_result) == aggregated_result \o <<"newline", "newline">>

-----------------------------------------------------------------------------
(* SpecReduce: mapreduce_super_long_context run on the same chunks twice,   *)
(* first with mapreduce_parallelism = 1 and then with mr_par > 1 worker     *)
(* threads, whose calls of oneshot finish in any order.                     *)

(* return reader.file(filepath) (reader.url, reader.pdf): debgpt/reader.py *)
(* defines read_file, read_url and read_file_pdf and no function of these  *)
(* names, so the return of the single chunk raises                         *)
AttributeError == <<"AttributeError">>

(* results[0] of an empty list *)
IndexError == <<"IndexError">>

InitReduce ==
    /\ kind = None /\ topK = 0 /\ session = <<>> /\ ctx = None
    /\ net = NeverFails /\ client = NoClient /\ lastInput = None
    /\ cl_ret = NoReturn /\ cl_http = 0 /\ cl_calls = 0 /\ cl_unreach = FALSE
    /\ SplitIdle
    /\ mr_chunks \in SeqsUpTo({<<c>> : c \in ChunkTexts}, MaxChunks)
    /\ mr_par \in 2 .. MaxWorkers
    /\ mr_pc = "ser_start"
    /\ mr_results = <<>> /\ mr_new = <<>> /\ mr_run = {} /\ mr_out = NoOutcome
    /\ GatherIdle
    /\ MainIdle
    /\ LibIdle

ReduceFrame ==
    UNCHANGED <<kind, topK, session, ctx, client, net, lastInput,
                cl_ret, cl_http, cl_calls, cl_unreach, splitVars,
                mr_chunks, mr_par, gatherVars, mainVars, libVars>>

(* aggregated_result = results[0]; return aggregated_result + two newlines *)
aggregate(results) ==
    IF results = <<>> THEN IndexError ELSE returned(results[1])

(* if len(chunks) == 1: return reader.file(filepath); else the serial pass *)
SerEnter ==
    /\ mr_pc = "ser_start"
    /\ IF Len(mr_chunks) = 1
       THEN /\ mr_out' = [mr_out EXCEPT !.ser_out = AttributeError]
            /\ mr_pc' = "par_start"
       ELSE /\ mr_pc' = "ser_map"
            /\ UNCHANGED mr_out
    /\ mr_results' = <<>>
    /\ UNCHANGED <<mr_new, mr_run>>
    /\ ReduceFrame

(* for chunk in chunks: results.append(_process_chunk(chunk, user_question)) *)
SerMapStep ==
    /\ mr_pc = "ser_map"
    /\ Len(mr_results) < Len(mr_chunks)
    /\ mr_results' = Append(mr_results,
                            process_chunk(mr_chunks[Len(mr_results) + 1], Question))
    /\ UNCHANGED <<mr_pc, mr_new, mr_run, mr_out>>
    /\ ReduceFrame

SerMapEnd ==
    /\ mr_pc = "ser_map"
    /\ Len(mr_results) = Len(mr_chunks)
    /\ mr_out' = [mr_out EXCEPT !.ser_map = mr_results]
    /\ mr_pc' = "ser_while"
    /\ UNCHANGED <<mr_results, mr_new, mr_run>>
    /\ ReduceFrame

(* while len(results) > 1: new_results = [] ...  and the return after it *)
SerWhile ==
    /\ mr_pc = "ser_while"
    /\ IF Len(mr_results) > 1
       THEN /\ mr_new' = <<>>
            /\ mr_pc' = "ser_for"
            /\ UNCHANGED mr_out
       ELSE /\ mr_out' = [mr_out EXCEPT !.ser_out = aggregate(mr_results)]
            /\ mr_pc' = "par_start"
            /\ UNCHANGED mr_new
    /\ UNCHANGED <<mr_results, mr_run>>
    /\ ReduceFrame

(* for (a, b) in zip(...): new_results.append(_process_two_results(a, b, ...)) *)
SerForStep ==
    /\ mr_pc = "ser_for"
    /\ Len(mr_new) < Len(pairs(mr_results))
    /\ LET ab == pairs(mr_results)[Len(mr_new) + 1]
       IN  mr_new' = Append(mr_new, process_two_results(ab[1], ab[2], Question))
    /\ UNCHANGED <<mr_pc, mr_results, mr_run, mr_out>>
    /\ ReduceFrame

(* the odd result is carried; results = new_results *)
SerForEnd ==
    /\ mr_pc = "ser_for"
    /\ Len(mr_new) = Len(pairs(mr_results))
    /\ mr_results' = carry_odd(mr_results, mr_new)
    /\ mr_pc' = "ser_while"
    /\ UNCHANGED <<mr_new, mr_run, mr_out>>
    /\ ReduceFrame

(* executor.map(fn, items): one slot per item, empty until its call returns *)
submitted(items) == [i \in DOMAIN items |-> <<>>]

ParEnter ==
    /\ mr_pc = "par_start"
    /\ IF Len(mr_chunks) = 1
       THEN /\ mr_out' = [mr_out EXCEPT !.par_out = AttributeError]
            /\ mr_pc' = "done"
            /\ UNCHANGED mr_new
       ELSE /\ mr_new' = submitted(mr_chunks)
            /\ mr_pc' = "par_map"
            /\ UNCHANGED mr_out
    /\ mr_results' = <<>>
    /\ UNCHANGED mr_run
    /\ ReduceFrame

Waiting == {i \in DOMAIN mr_new : mr_new[i] = <<>> /\ i \notin mr_run}

(* A free worker thread takes the next item of the work queue *)
WorkerStart ==
    /\ mr_pc \in {"par_map", "par_reduce"}
    /\ Waiting # {}
    /\ Cardinality(mr_run) < mr_par
    /\ mr_run' = mr_run \cup {CHOOSE i \in Waiting : \A j \in Waiting : i <= j}
    /\ UNCHANGED <<mr_pc, mr_results, mr_new, mr_out>>
    /\ ReduceFrame

(* executor.map yields the results in the order of the items, not in the   *)
(* order the calls return; here a result takes the first free slot instead  *)
collect_by_completion(slots, i, answer) ==
    LET free == {j \in DOMAIN slots : slots[j] = <<>>}
    IN  [slots EXCEPT ![CHOOSE j \in free : \A k \in free : j <= k] = answer]

(* executor.map yields the results in the order of the items *)
collect(slots, i, answer) == [slots EXCEPT ![i] = answer]

(* A worker's call returns.  mr_out.overtaken records that it returned      *)
(* while the call for an earlier item was still running.                    *)
WorkerFinish(i) ==
    /\ mr_pc \in {"par_map", "par_reduce"}
    /\ i \in mr_run
    /\ mr_new' = collect(mr_new, i,
                    IF mr_pc = "par_map"
                    THEN process_chunk(mr_chunks[i], Question)
                    ELSE process_two_results(pairs(mr_results)[i][1],
                                             pairs(mr_results)[i][2], Question))
    /\ mr_run' = mr_run \ {i}
    /\ mr_out' = [mr_out EXCEPT !.overtaken = @ \/ \E j \in mr_run : j < i]
    /\ UNCHANGED <<mr_pc, mr_results>>
    /\ ReduceFrame

AllReturned == \A i \in DOMAIN mr_new : mr_new[i] # <<>>

(* results = list(executor.map(...)) of the map phase *)
ParMapEnd ==
    /\ mr_pc = "par_map"
    /\ AllReturned
    /\ mr_results' = mr_new
    /\ mr_out' = [mr_out EXCEPT !.par_map = mr_new]
    /\ mr_pc' = "par_while"
    /\ UNCHANGED <<mr_new, mr_run>>
    /\ ReduceFrame

ParWhile ==
    /\ mr_pc = "par_while"
    /\ IF Len(mr_results) > 1
       THEN /\ mr_new' = submitted(pairs(mr_results))
            /\ mr_pc' = "par_reduce"
            /\ UNCHANGED mr_out
       ELSE /\ mr_out' = [mr_out EXCEPT !.par_out = aggregate(mr_results)]
            /\ mr_pc' = "done"
            /\ UNCHANGED mr_new
    /\ UNCHANGED <<mr_results, mr_run>>
    /\ ReduceFrame

(* new_results = list(executor.map(...)); the odd result is carried *)
ParReduceEnd ==
    /\ mr_pc = "par_reduce"
    /\ AllReturned
    /\ mr_results' = carry_odd(mr_results, mr_new)
    /\ mr_pc' = "par_while"
    /\ UNCHANGED <<mr_new, mr_run, mr_out>>
    /\ ReduceFrame

NextReduce ==
    \/ SerEnter \/ SerMapStep \/ SerMapEnd \/ SerWhile \/ SerForStep \/ SerForEnd
    \/ ParEnter \/ WorkerStart \/ (\E i \in 1 .. MaxChunks : WorkerFinish(i))
    \/ ParMapEnd \/ ParWhile \/ ParReduceEnd

SpecReduce == InitReduce /\ [][NextReduce]_vars

(* Every statement that can run does run, and every call of oneshot returns *)
SpecReduceFair == SpecReduce /\ WF_vars(NextReduce)

-----------------------------------------------------------------------------
(* Claims about the reduce phase *)

RECURSIVE Concat(_)
Concat(texts) == IF texts = <<>> THEN <<>> ELSE Head(texts) \o Concat(Tail(texts))

IsChunkText(piece) == piece \in ChunkTexts

(* The chunk texts a text quotes, in the order it quotes them *)
ChunksOf(text) == SelectSeq(text, IsChunkText)

(* What one round makes of results *)
RoundOf(results) ==
    [k \in 1 .. ((Len(results) + 1) \div 2) |->
        IF 2 * k <= Len(results)
        THEN process_two_results(results[2 * k - 1], results[2 * k], Question)
        ELSE results[Len(results)]]

RoundEnds ==
    \/ mr_pc = "ser_for" /\ mr_pc' = "ser_while"
    \/ mr_pc = "par_reduce" /\ mr_pc' = "par_while"

(* C11: for n >= 2 map-phase results both runs end with one result; each    *)
(* round pairs adjacent results in order and carries the last result of an  *)
(* odd count unmodified, so the results always quote every chunk once, in   *)
(* the order of the chunks.                                                 *)
C11_ReduceToOne ==
    /\ [][RoundEnds => mr_results' = RoundOf(mr_results)]_vars
    /\ [](/\ Len(mr_chunks) >= 2
          /\ mr_pc \in {"ser_while", "par_while", "ser_for", "par_reduce", "done"}
          => ChunksOf(Concat(mr_results)) = Concat(mr_chunks))
    /\ [](Len(mr_chunks) >= 2 =>
            <>(/\ mr_pc = "done"
               /\ Len(mr_results) = 1
               /\ mr_out.ser_out # IndexError
               /\ mr_out.par_out = returned(mr_results[1])))

C11_Witness ==
    /\ mr_pc = "done"
    /\ Len(mr_chunks) = 5
    /\ Len(mr_results) = 1
    /\ ChunksOf(mr_out.ser_out) = Concat(mr_chunks)
    /\ ChunksOf(mr_out.par_out) = Concat(mr_chunks)

(* C12: with oneshot a function of its input, the parallel run gives the    *)
(* same per-chunk answers in the same positions and the same final          *)
(* aggregate as the serial run, in whatever order the workers' calls        *)
(* return.                                                                  *)
C12_ParallelEqualsSerial ==
    /\ mr_pc \in {"par_while", "par_reduce", "done"} /\ Len(mr_chunks) # 1
          => mr_out.par_map = mr_out.ser_map
    /\ mr_pc = "done" => mr_out.par_out = mr_out.ser_out

C12_Witness ==
    /\ mr_pc = "done"
    /\ mr_out.overtaken
    /\ Len(mr_chunks) >= 3
    /\ \E i, j \in DOMAIN mr_chunks : mr_chunks[i] # mr_chunks[j]
    /\ mr_out.par_out = mr_out.ser_out

-----------------------------------------------------------------------------
(* gather_information_ordered (debgpt/cli.py).  argv is the command line as *)
(* a sequence of [flag, val]; ag is what arguments.parse_args makes of it.  *)

MaxArgs == 3        \* SpecGather: most flags on the command line

(* The flags whose values argparse appends to a list *)
ListKeys ==
    {"file", "tldr", "man", "buildd", "pynew", "archw", "pdf", "cmd", "bts",
     "html", "policy", "devref"}

(* msg = None *)
NoneMsg == <<None>>

(* All values of flag, in the order given (argparse: action='append') *)
RECURSIVE values_of(_, _)
values_of(argv, flag) ==
    IF argv = <<>> THEN <<>>
    ELSE IF Head(argv).flag = flag
         THEN <<Head(argv).val>> \o values_of(Tail(argv), flag)
         ELSE values_of(Tail(argv), flag)

(* The last value of flag, or default when it was not given *)
last_of(argv, flag, default) ==
    IF values_of(argv, flag) = <<>> THEN default
    ELSE values_of(argv, flag)[Len(values_of(argv, flag))]

(* arguments.parse_args, for the options gather_information_ordered reads; *)
(* chunks is what ag.mapreduce loads, instance is ag.frontend_instance      *)
parse_args(argv, chunks, instance) ==
    [lists |-> [k \in ListKeys |-> values_of(argv, k)],
     ask |-> last_of(argv, "ask", ""),
     inplace |-> last_of(argv, "inplace", ""),
     mapreduce |-> last_of(argv, "mapreduce", ""),
     chunks |-> chunks,
     frontend_instance |-> instance]

(* arguments.parse_args_order: the context-producing flags, as given *)
RECURSIVE parse_args_order(_)
parse_args_order(argv) ==
    IF argv = <<>> THEN <<>>
    ELSE IF Head(argv).flag = "ask" THEN parse_args_order(Tail(argv))
    ELSE <<Head(argv).flag>> \o parse_args_order(Tail(argv))

(* console.print of the chunk count *)
got_chunks(n, path) ==
    "MapReduce: Got " \o ToString(n) \o " chunks from " \o path

(* console.print at the top of each round of the reduce loop *)
RECURSIVE reduced_to(_)
reduced_to(n) ==
    IF n > 1
    THEN <<"MapReduce: reduced to " \o ToString(n) \o " intermediate results">>
             \o reduced_to((n + 1) \div 2)
    ELSE <<>>

(* _append_info *)
append_info(msg, info) ==
    (IF msg = NoneMsg THEN <<>> ELSE msg) \o <<"newline">> \o info

(* The map phase, serial *)
map_serial(chunks, question) ==
    [i \in DOMAIN chunks |-> process_chunk(chunks[i], question)]

(* The reduce loop, serial *)
RECURSIVE reduce_serial(_, _)
reduce_serial(results, question) ==
    IF Len(results) > 1
    THEN reduce_serial(
             carry_odd(results,
                       [k \in DOMAIN pairs(results) |->
                           process_two_results(pairs(results)[k][1],
                                               pairs(results)[k][2], question)]),
             question)
    ELSE results

(* mapreduce_super_long_context(ag) as gather_information_ordered calls it, *)
(* mapreduce_parallelism being 1.  printed is what it prints on the         *)
(* console.  One chunk: reader.file is no attribute of the reader module.   *)
(* No chunk: results[0] of the empty list.  Otherwise the first             *)
(* _process_chunk reads ag.frontend_instance.                               *)
mapreduce_super_long_context(ag) ==
    IF Len(ag.chunks) = 1
    THEN [text |-> <<>>, raised |-> "AttributeError",
          printed |-> <<got_chunks(1, ag.mapreduce)>>]
    ELSE IF ag.chunks = <<>>
    THEN [text |-> <<>>, raised |-> "IndexError",
          printed |-> <<got_chunks(0, ag.mapreduce)>>]
    ELSE IF ag.frontend_instance = "absent"
    THEN [text |-> <<>>, raised |-> "AttributeError",
          printed |-> <<got_chunks(Len(ag.chunks), ag.mapreduce)>>]
    ELSE [text |-> aggregate(
                     reduce_serial(
                       map_serial(ag.chunks,
                                  IF ag.ask # "" THEN ag.ask ELSE Question),
                       IF ag.ask # "" THEN ag.ask ELSE Question)),
          raised |-> None,
          printed |-> <<got_chunks(Len(ag.chunks), ag.mapreduce)>>
                          \o reduced_to(Len(ag.chunks))]

(* The loop of gather_information_ordered over ag_order.  For file and cmd *)
(* the value is popped from its list, then getattr(reader, 'file') and      *)
(* reader.command_line raise AttributeError, as reader.file(ag.inplace)     *)
(* does: debgpt/reader.py defines read_file and read_cmd, and no function   *)
(* named file or command_line.                                              *)
RECURSIVE gather_keys(_, _, _, _)
gather_keys(msg, ag, ag_order, has_done_mapreduce) ==
    IF ag_order = <<>> THEN [msg |-> msg, raised |-> None, printed |-> <<>>]
    ELSE IF Head(ag_order) \in ListKeys
    THEN IF ag.lists[Head(ag_order)] = <<>>
         THEN [msg |-> msg, raised |-> "IndexError", printed |-> <<>>]
         ELSE [msg |-> msg, raised |-> "AttributeError", printed |-> <<>>]
    ELSE IF Head(ag_order) = "inplace"
    THEN [msg |-> msg, raised |-> "AttributeError", printed |-> <<>>]
    ELSE IF Head(ag_order) = "mapreduce"
    THEN IF has_done_mapreduce
         THEN gather_keys(msg, ag, Tail(ag_order), has_done_mapreduce)
         ELSE LET after(r, g) == [g EXCEPT !.printed = r.printed \o @]
                  reduced(r) ==
                      IF r.raised # None
                      THEN [msg |-> msg, raised |-> r.raised,
                            printed |-> r.printed]
                      ELSE after(r, gather_keys(append_info(msg, r.text), ag,
                                                Tail(ag_order), TRUE))
              IN  reduced(mapreduce_super_long_context(ag))
    ELSE [msg |-> msg, raised |-> "NotImplementedError", printed |-> <<>>]

(* if ag.ask: msg = '' if msg is None else msg;                             *)
(*            msg += ('' if not msg else newline) + ag.ask                  *)
ask_last(msg, ask) ==
    IF ask = "" THEN msg
    ELSE IF msg = NoneMsg \/ msg = <<>> THEN <<ask>>
    ELSE msg \o <<"newline", ask>>

(* gather_information_ordered *)
gather_information_ordered(msg, ag, ag_order) ==
    LET gathered(g) ==
            IF g.raised # None
            THEN [called |-> TRUE, msg |-> g.msg, raised |-> g.raised,
                  printed |-> g.printed]
            ELSE [called |-> TRUE, msg |-> ask_last(g.msg, ag.ask),
                  raised |-> None, printed |-> g.printed]
    IN  gathered(gather_keys(msg, ag, ag_order, FALSE))

-----------------------------------------------------------------------------
(* SpecGather: gather_information_ordered called on a command line *)

ArgOptions ==
    {[flag |-> "file", val |-> "a"], [flag |-> "file", val |-> "b"],
     [flag |-> "cmd", val |-> "x"], [flag |-> "pdf", val |-> "p"],
     [flag |-> "inplace", val |-> "f"],
     [flag |-> "mapreduce", val |-> "m"], [flag |-> "ask", val |-> "q"]}

InitGather ==
    /\ kind = None /\ topK = 0 /\ session = <<>> /\ ctx = None
    /\ net = NeverFails /\ client = NoClient /\ lastInput = None
    /\ cl_ret = NoReturn /\ cl_http = 0 /\ cl_calls = 0 /\ cl_unreach = FALSE
    /\ SplitIdle
    /\ ReduceIdle
    /\ ga_argv \in SeqsUpTo(ArgOptions, MaxArgs)
    /\ ga_chunks \in {<<>>, << <<"c1">> >>, << <<"c1">>, <<"c2">>, <<"c1">> >>}
    /\ ga_inst \in {"absent", "echo"}
    /\ ga_ret = NotCalled
    /\ MainIdle
    /\ LibIdle

Gather ==
    /\ ~ga_ret.called
    /\ ga_ret' = gather_information_ordered(
                     NoneMsg, parse_args(ga_argv, ga_chunks, ga_inst),
                     parse_args_order(ga_argv))
    /\ UNCHANGED <<kind, topK, session, ctx, client, net, lastInput,
                   cl_ret, cl_http, cl_calls, cl_unreach, splitVars, reduceVars,
                   ga_argv, ga_chunks, ga_inst, mainVars, libVars>>

NextGather == Gather

SpecGather == InitGather /\ [][NextGather]_vars

-----------------------------------------------------------------------------
(* Claim about gather_information_ordered *)

(* The text each flag of the command line stands for, in the order given;   *)
(* --mapreduce counts where it is given first, --ask not at all             *)
RECURSIVE TextsInOrder(_, _, _)
TextsInOrder(argv, mapreduced, reduced_text) ==
    IF argv = <<>> THEN <<>>
    ELSE IF Head(argv).flag = "ask" \/ (Head(argv).flag = "mapreduce" /\ mapreduced)
    THEN TextsInOrder(Tail(argv), mapreduced, reduced_text)
    ELSE IF Head(argv).flag = "mapreduce"
    THEN <<"newline">> \o reduced_text \o TextsInOrder(Tail(argv), TRUE, reduced_text)
    ELSE <<"newline", IF Head(argv).flag = "inplace" THEN "file" ELSE Head(argv).flag,
           Head(argv).val>>
         \o TextsInOrder(Tail(argv), mapreduced, reduced_text)

Asked(argv) == \E i \in DOMAIN argv : argv[i].flag = "ask"

(* The first prompt the command line stands for: the texts in flag order,  *)
(* the question last                                                        *)
PromptInOrder(msg) ==
    LET texts == TextsInOrder(ga_argv, FALSE,
                     mapreduce_super_long_context(
                         parse_args(ga_argv, ga_chunks, ga_inst)).text)
    IN  /\ ~Asked(ga_argv) /\ texts = <<>> => msg = NoneMsg
        /\ ~Asked(ga_argv) /\ texts # <<>> => msg = texts
        /\ Asked(ga_argv) /\ texts = <<>> => msg = <<"q">>
        /\ Asked(ga_argv) /\ texts # <<>> => msg = texts \o <<"newline", "q">>

(* C13: gather_information_ordered returns the first prompt, which is the   *)
(* gathered texts in the order of the flags, the i-th --file (--cmd)        *)
(* standing for the i-th path (command) given, and the --ask question,      *)
(* when given, comes last.                                                  *)
C13_FlagsInOrderAskLast ==
    ga_ret.called => ga_ret.raised = None /\ PromptInOrder(ga_ret.msg)

(* What does hold: a call that returns returns that prompt, and the calls   *)
(* that raise are those of a command line with a flag read through the      *)
(* reader module, or with a --mapreduce that cannot aggregate               *)
C13_ReturnedPromptInOrder ==
    ga_ret.called =>
        /\ ga_ret.raised = None => PromptInOrder(ga_ret.msg)
        /\ ga_ret.raised # None =>
               \E i \in DOMAIN ga_argv :
                   \/ ga_argv[i].flag \in ListKeys \cup {"inplace"}
                   \/ /\ ga_argv[i].flag = "mapreduce"
                      /\ Len(ga_chunks) < 2 \/ ga_inst = "absent"

-----------------------------------------------------------------------------
(* main (debgpt/cli.py), the default ask flow, with interact_once and       *)
(* interact_with (debgpt/frontend.py).  A line of input is a sequence of    *)
(* lexemes: words, the blank " " and the quote "'".                         *)

MaxTurns == 2       \* SpecMain: lines the interactive loop reads

(* The string a text stands for *)
RECURSIVE str_of(_)
str_of(text) == IF text = <<>> THEN "" ELSE Head(text) \o str_of(Tail(text))

(* shlex.split, scanning the line: tokens so far, the token being read,     *)
(* whether one is being read, and whether a quote is open                   *)
RECURSIVE shlex_scan(_, _, _, _, _)
shlex_scan(rest, tokens, token, reading, quoted) ==
    IF rest = <<>>
    THEN IF quoted THEN [raised |-> "ValueError", cmd |-> <<>>]
         ELSE [raised |-> None,
               cmd |-> IF reading THEN Append(tokens, token) ELSE tokens]
    ELSE IF quoted
    THEN IF Head(rest) = "'"
         THEN shlex_scan(Tail(rest), tokens, token, TRUE, FALSE)
         ELSE shlex_scan(Tail(rest), tokens, token \o Head(rest), TRUE, TRUE)
    ELSE IF Head(rest) = "'"
    THEN shlex_scan(Tail(rest), tokens, token, TRUE, TRUE)
    ELSE IF Head(rest) = " "
    THEN shlex_scan(Tail(rest),
                    IF reading THEN Append(tokens, token) ELSE tokens,
                    "", FALSE, FALSE)
    ELSE shlex_scan(Tail(rest), tokens, token \o Head(rest), TRUE, FALSE)

(* shlex.split(text) *)
shlex_split(text) == shlex_scan(text, <<>>, "", FALSE, FALSE)

(* text.startswith('/') *)
startswith_slash(text) == text # <<>> /\ Head(text) = "/"

(* console.print / console.log of one message *)
console_print(console, message) == [n |-> console.n + 1, last |-> message]

(* The messages printed one after the other *)
RECURSIVE console_print_all(_, _)
console_print_all(console, messages) ==
    IF messages = <<>> THEN console
    ELSE console_print_all(console_print(console, Head(messages)),
                           Tail(messages))

(* create_frontend: None for dryrun *)
create_frontend(kd) == IF kd = "dryrun" THEN <<>> ELSE InitSession(kd, FALSE)

(* AbstractFrontend.__init__ logs the start of the conversation (the uuid   *)
(* is left out of the message); EchoFrontend.__init__ does not call it, and *)
(* dryrun creates no frontend.  ag.verbose is not set.                      *)
starts_conversation(kd) == kd \notin {"dryrun", "echo"}

(* f.stream: the class attribute of OpenAIFrontend, False in EchoFrontend *)
stream(kd) == kd # "echo"

(* f.multiline: args.multiline, False in EchoFrontend *)
multiline(kd, opts) == kd # "echo" /\ opts.multiline

(* AbstractFrontend.__len__: the messages of the session that are not       *)
(* system messages                                                          *)
len_f(sess) == Cardinality({i \in DOMAIN sess : sess[i].role # "system"})

(* The prompt interact_once prints before the query of a streaming frontend *)
lprompt(sess) == "LLM[" \o ToString(2 + len_f(sess)) \o "]> "

(* Panel(escape(msg), title='Initial Prompt'); no text of the model holds a *)
(* bracket for escape to change                                             *)
Panel(msg, title) == title \o ": " \o msg

(* EchoFrontend.dump is pass; AbstractFrontend.dump writes the session *)
dump_writes(kd) == kd # "echo"

(* Whether a query of this frontend sends a request to a model backend *)
sends_request(kd) == kd \notin EchoKinds

-----------------------------------------------------------------------------
(* SpecMain *)

MainKinds == {"dryrun", "echo", "openai"}

Arg(flag, val) == [flag |-> flag, val |-> val]

MainArgvs ==
    {<<>>,
     <<Arg("ask", "q")>>,
     <<Arg("file", "a"), Arg("ask", "q")>>,
     <<Arg("mapreduce", "m")>>,
     <<Arg("mapreduce", "m"), Arg("ask", "q")>>,
     <<Arg("inplace", "f"), Arg("ask", "q")>>}

OneChunk == << <<"c1">> >>
ThreeChunks == << <<"c1">>, <<"c2">>, <<"c1">> >>

Given(argv, flag) == \E i \in DOMAIN argv : argv[i].flag = flag

Lines ==
    {<<"hello">>,
     <<"/", "save", " ", "p">>,
     <<"/", "save", " ", "'", "my", " ", "file", "'">>,
     <<"/", "save">>,
     <<"/", "save", " ", "'", "p">>,
     <<"/", "reset">>,
     <<"/", "reset", " ", "now">>,
     <<"/", "quit">>,
     <<"/", "quit", " ", "now">>,
     <<"/", "bogus">>}

(* ag, as main has it: nothing sets ag.frontend_instance *)
main_ag == parse_args(ma_argv, ma_opts.chunks, "absent")

InitMain ==
    /\ kind \in MainKinds
    /\ topK = 0 /\ session = <<>> /\ ctx = None
    /\ net = NeverFails /\ client = NoClient /\ lastInput = None
    /\ cl_ret = NoReturn /\ cl_http = 0 /\ cl_calls = 0 /\ cl_unreach = FALSE
    /\ SplitIdle
    /\ ReduceIdle
    /\ GatherIdle
    /\ ma_argv \in MainArgvs
    /\ ma_opts \in [quit : BOOLEAN, git : BOOLEAN, hide_first : BOOLEAN,
                    multiline : BOOLEAN, chunks : {<<>>, OneChunk, ThreeChunks}]
    /\ ma_opts.git => Given(ma_argv, "inplace")
    /\ ma_opts.chunks # OneChunk => Given(ma_argv, "mapreduce")
    /\ ma_pc = "start"
    /\ ma_msg = NoneMsg
    /\ ma_exit = Running /\ ma_dumped = FALSE /\ ma_console = NoConsole
    /\ ma_sent = 0 /\ ma_line = <<>> /\ ma_saved = <<>> /\ ma_turns = 0
    /\ LibIdle

MainFrame ==
    UNCHANGED <<kind, topK, cl_ret, cl_http, cl_calls, cl_unreach,
                splitVars, reduceVars, gatherVars, ma_argv, ma_opts, libVars>>

FrontendUnchanged == UNCHANGED <<session, ctx, client, net, lastInput>>

(* The process ends: exit(status), the return of main, or a traceback *)
Ends(status) == ma_pc' = "ended" /\ ma_exit' = status

(* f = frontend.create_frontend(ag) *)
MainCreate ==
    /\ ma_pc = "start"
    /\ session' = create_frontend(kind)
    /\ ma_pc' = "gather"
    /\ ma_console' = IF starts_conversation(kind)
                     THEN console_print(ma_console,
                                        "OpenAIFrontend> Starting conversation")
                     ELSE ma_console
    /\ UNCHANGED <<ctx, client, net, lastInput, ma_msg, ma_exit, ma_dumped,
                   ma_sent, ma_line, ma_saved, ma_turns>>
    /\ MainFrame

(* msg = gather_information_ordered(msg, ag, ag_order); what it printed    *)
(* before it raised stays on the console                                    *)
MainGather ==
    /\ ma_pc = "gather"
    /\ \E g \in {gather_information_ordered(NoneMsg, main_ag,
                                            parse_args_order(ma_argv))} :
          /\ ma_console' = console_print_all(ma_console, g.printed)
          /\ IF g.raised # None
             THEN Ends(1) /\ UNCHANGED ma_msg
             ELSE ma_msg' = g.msg /\ ma_pc' = "gathered" /\ UNCHANGED ma_exit
    /\ FrontendUnchanged
    /\ UNCHANGED <<ma_dumped, ma_sent, ma_line, ma_saved, ma_turns>>
    /\ MainFrame

(* if ag.frontend == 'dryrun': console.print(msg); exit(0) *)
MainDryrun ==
    /\ ma_pc = "gathered"
    /\ IF kind = "dryrun"
       THEN /\ ma_console' = console_print(ma_console, str_of(ma_msg))
            /\ Ends(0)
       ELSE /\ ma_pc' = "first"
            /\ UNCHANGED <<ma_console, ma_exit>>
    /\ FrontendUnchanged
    /\ UNCHANGED <<ma_msg, ma_dumped, ma_sent, ma_line, ma_saved, ma_turns>>
    /\ MainFrame

(* The loop of interact_with is entered unless ag.quit *)
AfterFirst == IF ma_opts.quit THEN "inplace" ELSE "prompt"

(* interact_with, up to its loop: the help message of the multiline mode *)
enter_loop(console) ==
    IF ~ma_opts.quit /\ multiline(kind, ma_opts)
    THEN console_print(console, "In multiline mode, please press [Meta+Enter]")
    ELSE console

(* What the request to the provider does: it answers, or it raises an      *)
(* Exception, or EOFError (an Exception too), or KeyboardInterrupt (Ctrl-C  *)
(* while the request runs), which is no Exception                           *)
QueryFaults == {"none", "Exception", "EOFError", "KeyboardInterrupt"}

(* The request is reached (update_session did not raise) and raises fault; *)
(* a frontend that sends no request has no request to fail                  *)
request_raises(kd, F, input, k, fault) ==
    /\ fault # "none"
    /\ sends_request(kd)
    /\ ~update_session(F, input, k, "empty").raised

(* f(text) with the request doing fault: __call__ catches Exception only,   *)
(* so a KeyboardInterrupt leaves the session as update_session made it      *)
call_with(kd, F, input, k, reply, fault) ==
    IF fault = "KeyboardInterrupt" /\ request_raises(kd, F, input, k, fault)
    THEN Raised(update_session(F, input, k, "empty").F)
    ELSE call(kd, F, input, k, "empty", reply, fault # "none", "empty")

(* The exception of f(text) is one the try of interact_with catches *)
caught_by_loop(kd, F, input, k, fault) ==
    /\ fault \in {"EOFError", "KeyboardInterrupt"}
    /\ request_raises(kd, F, input, k, fault)

(* The status of a process that ends on an exception: 1, and for an         *)
(* unhandled KeyboardInterrupt that of a process killed by SIGINT           *)
traceback_status(kd, F, input, k, fault) ==
    IF fault = "KeyboardInterrupt" /\ request_raises(kd, F, input, k, fault)
    THEN 130 ELSE 1

(* interact_once(f, text), on the console as it is before the call: a       *)
(* streaming frontend has the prompt LLM[n]> printed, then f(text).  In the *)
(* loop of interact_with (in_loop) EOFError and KeyboardInterrupt end the   *)
(* loop and main goes on; any other exception, and every exception of the   *)
(* first query, leaves main.  Otherwise main goes on to pc then, which is   *)
(* interact_with when entering.                                             *)
InteractOnce(text, then, before, entering, in_loop) ==
    \E reply \in Replies, fault \in QueryFaults :
      \E r \in {call_with(kind, Self, [type |-> "str", val |-> text], topK,
                          reply, fault)},
         prompted \in {IF stream(kind)
                       THEN console_print(before, lprompt(session))
                       ELSE before} :
        /\ session' = r.F.session
        /\ ctx' = r.F.ctx
        /\ client' = r.F.client
        /\ net' = r.F.net
        /\ lastInput' = "str"
        /\ ma_sent' = IF sends_request(kind) THEN ma_sent + 1 ELSE ma_sent
        /\ IF r.raised
           THEN /\ ma_console' = prompted
                /\ IF in_loop /\ caught_by_loop(kind, Self,
                                                [type |-> "str", val |-> text],
                                                topK, fault)
                   THEN ma_pc' = "inplace" /\ UNCHANGED ma_exit
                   ELSE Ends(traceback_status(kind, Self,
                                              [type |-> "str", val |-> text],
                                              topK, fault))
           ELSE /\ ma_pc' = then
                /\ ma_console' = IF entering THEN enter_loop(prompted)
                                 ELSE prompted
                /\ UNCHANGED ma_exit

(* if msg is not None: the panel of the prompt unless ag.hide_first, and    *)
(* interact_once(f, msg); then interact_with is entered unless ag.quit      *)
MainFirst ==
    /\ ma_pc = "first"
    /\ IF ma_msg # NoneMsg
       THEN InteractOnce(str_of(ma_msg), AfterFirst,
                         IF ma_opts.hide_first THEN ma_console
                         ELSE console_print(ma_console,
                                            Panel(str_of(ma_msg),
                                                  "Initial Prompt")),
                         TRUE, FALSE)
       ELSE /\ ma_pc' = AfterFirst
            /\ ma_console' = enter_loop(ma_console)
            /\ FrontendUnchanged
            /\ UNCHANGED <<ma_sent, ma_exit>>
    /\ UNCHANGED <<ma_msg, ma_dumped, ma_line, ma_saved, ma_turns>>
    /\ MainFrame

(* What ends the loop at the prompt: an empty text (while text := ...), or *)
(* EOFError or KeyboardInterrupt raised by the prompt                       *)
EmptyLine == <<>>
EOFError == <<"EOFError">>
KeyboardInterrupt == <<"KeyboardInterrupt">>

(* The prompt returns an empty text, or raises EOFError or                  *)
(* KeyboardInterrupt: the loop ends                                         *)
PromptEnd ==
    /\ ma_pc = "prompt"
    /\ ma_pc' = "inplace"
    /\ ma_line' \in {EmptyLine, EOFError, KeyboardInterrupt}
    /\ FrontendUnchanged
    /\ UNCHANGED <<ma_msg, ma_exit, ma_dumped, ma_console, ma_sent, ma_saved,
                   ma_turns>>
    /\ MainFrame

(* The prompt returns a text that is no slash-command: interact_once *)
PromptQuery(text) ==
    /\ ma_pc = "prompt"
    /\ ma_turns < MaxTurns
    /\ ~startswith_slash(text)
    /\ ma_line' = text
    /\ ma_turns' = ma_turns + 1
    /\ InteractOnce(str_of(text), "prompt", ma_console, FALSE, TRUE)
    /\ UNCHANGED <<ma_msg, ma_dumped, ma_saved>>
    /\ MainFrame

(* /save: open(path, 'wt') empties the file, then                          *)
(* fp.write(f.session[-1]['content']), which raises IndexError on an empty  *)
(* session                                                                  *)
SlashSave(cmd) ==
    IF Len(cmd) # 2
    THEN /\ ma_console' = console_print(ma_console, "syntax error: /save <path>")
         /\ UNCHANGED <<ma_pc, ma_exit, ma_saved, session, ctx>>
    ELSE IF session = <<>>
    THEN /\ ma_saved' = <<[path |-> cmd[2], text |-> ""]>> \o ma_saved
         /\ Ends(1)
         /\ UNCHANGED <<ma_console, session, ctx>>
    ELSE /\ ma_saved' = <<[path |-> cmd[2],
                           text |-> session[Len(session)].content]>> \o ma_saved
         /\ ma_console' = console_print(ma_console,
                            "The last LLM response is saved at " \o cmd[2])
         /\ UNCHANGED <<ma_pc, ma_exit, session, ctx>>

(* reset reads self._vector_client after it has cleared the session;       *)
(* EchoFrontend.__init__ does not run AbstractFrontend.__init__ and has no  *)
(* such attribute, so its reset raises AttributeError                       *)
reset_raises(kd) == kd = "echo"

(* /reset: f.reset() *)
SlashReset(cmd) ==
    IF Len(cmd) # 1
    THEN /\ ma_console' = console_print(ma_console, "syntax error: /reset")
         /\ UNCHANGED <<ma_pc, ma_exit, ma_saved, session, ctx>>
    ELSE /\ session' = reset(Self).session
         /\ ctx' = reset(Self).ctx
         /\ IF reset_raises(kind) THEN Ends(1) ELSE UNCHANGED <<ma_pc, ma_exit>>
         /\ UNCHANGED <<ma_saved, ma_console>>

(* /quit: break *)
SlashQuit(cmd) ==
    IF Len(cmd) # 1
    THEN /\ ma_console' = console_print(ma_console, "syntax error: /quit")
         /\ UNCHANGED <<ma_pc, ma_exit, ma_saved, session, ctx>>
    ELSE /\ ma_pc' = "inplace"
         /\ UNCHANGED <<ma_exit, ma_saved, ma_console, session, ctx>>

(* The prompt returns a text that starts with '/' *)
PromptSlash(text) ==
    /\ ma_pc = "prompt"
    /\ ma_turns < MaxTurns
    /\ startswith_slash(text)
    /\ ma_line' = text
    /\ ma_turns' = ma_turns + 1
    /\ \E s \in {shlex_split(text)} :
          IF s.raised # None
          THEN /\ Ends(1)
               /\ UNCHANGED <<ma_console, ma_saved, session, ctx>>
          ELSE IF s.cmd[1] = "/save" THEN SlashSave(s.cmd)
          ELSE IF s.cmd[1] = "/reset" THEN SlashReset(s.cmd)
          ELSE IF s.cmd[1] = "/quit" THEN SlashQuit(s.cmd)
          ELSE /\ ma_console' = console_print(ma_console,
                                              "unknown command: " \o s.cmd[1])
               /\ UNCHANGED <<ma_pc, ma_exit, ma_saved, session, ctx>>
    /\ UNCHANGED <<client, net, lastInput, ma_msg, ma_dumped, ma_sent>>
    /\ MainFrame

(* if ag.inplace: the file is rewritten with f.session[-1]['content'], the  *)
(* rule DIFFERENCE is printed, and with a git option subcmd_git_commit(ag)  *)
(* reads ag.frontend_instance.  No text of the model ends in a newline, so  *)
(* one is added.  (A run with --inplace does not come here: its             *)
(* gather_information_ordered raises.)                                      *)
MainInplace ==
    /\ ma_pc = "inplace"
    /\ IF main_ag.inplace = ""
       THEN /\ ma_pc' = "dump"
            /\ UNCHANGED <<ma_exit, ma_saved, ma_console>>
       ELSE IF session = <<>> \/ session[Len(session)].content = ""
       THEN /\ Ends(1)
            /\ UNCHANGED <<ma_saved, ma_console>>
       ELSE /\ ma_saved' = <<[path |-> main_ag.inplace,
                              text |-> session[Len(session)].content \o "\n"]>>
                           \o ma_saved
            /\ ma_console' = console_print(ma_console, "DIFFERENCE")
            /\ IF ma_opts.git
               THEN Ends(1)
               ELSE ma_pc' = "dump" /\ UNCHANGED ma_exit
    /\ FrontendUnchanged
    /\ UNCHANGED <<ma_msg, ma_dumped, ma_sent, ma_line, ma_turns>>
    /\ MainFrame

(* f.dump(), and main returns (ag.output is None): AbstractFrontend.dump    *)
(* writes the session and logs where; EchoFrontend.dump does nothing        *)
MainDump ==
    /\ ma_pc = "dump"
    /\ ma_dumped' = dump_writes(kind)
    /\ ma_console' = IF dump_writes(kind)
                     THEN console_print(ma_console,
                                        "OpenAIFrontend> Conversation saved")
                     ELSE ma_console
    /\ Ends(0)
    /\ FrontendUnchanged
    /\ UNCHANGED <<ma_msg, ma_sent, ma_line, ma_saved, ma_turns>>
    /\ MainFrame

NextMain ==
    \/ MainCreate \/ MainGather \/ MainDryrun \/ MainFirst
    \/ PromptEnd
    \/ \E text \in Lines : PromptQuery(text)
    \/ \E text \in Lines : PromptSlash(text)
    \/ MainInplace \/ MainDump

SpecMain == InitMain /\ [][NextMain]_vars

-----------------------------------------------------------------------------
(* Claims about main and the interactive loop *)

(* C14 (as claimed): a run of the default ask flow that created a frontend  *)
(* has serialized the session (f.dump()) when the process ends.             *)
C14_DumpBeforeExit ==
    ma_pc = "ended" /\ kind # "dryrun" => ma_dumped

(* C15 (as claimed): with the dryrun frontend no request is sent to a model *)
(* backend, and the process ends by printing the assembled prompt and       *)
(* exiting with status 0.                                                   *)
C15_DryrunPrintsAndExits ==
    kind = "dryrun" =>
        /\ ma_sent = 0
        /\ ma_pc = "ended" =>
              /\ ma_exit = 0
              /\ ma_console = console_print(NoConsole, str_of(ma_msg))

(* The interactive loop has just read the line ma_line' *)
ReadsLine == ma_pc = "prompt" /\ ma_turns' = ma_turns + 1

(* The slash-commands the loop knows, with the arguments they take *)
WellFormed(cmd) ==
    \/ Len(cmd) = 2 /\ cmd[1] = "/save"
    \/ cmd = <<"/reset">>
    \/ cmd = <<"/quit">>

Malformed(text) ==
    /\ startswith_slash(text)
    /\ \/ shlex_split(text).raised # None
       \/ ~WellFormed(shlex_split(text).cmd)

(* C18 (as claimed): a slash-command with the wrong number of arguments, an *)
(* unknown one, or any other malformed slash-command line prints a message, *)
(* leaves session, frontend state and files as they were, and the loop      *)
(* goes on to the next prompt.                                              *)
C18_MalformedIsHarmless ==
    [][ReadsLine /\ Malformed(ma_line') =>
          /\ ma_console'.n = ma_console.n + 1
          /\ UNCHANGED <<session, ctx, client, net, ma_saved>>
          /\ ma_pc' = "prompt"]_vars

LastAssistant(s) ==
    s[CHOOSE i \in DOMAIN s :
        /\ s[i].role = "assistant"
        /\ \A j \in DOMAIN s : j > i => s[j].role # "assistant"].content

SaveLine(text) ==
    /\ startswith_slash(text)
    /\ shlex_split(text).raised = None
    /\ Len(shlex_split(text).cmd) = 2
    /\ shlex_split(text).cmd[1] = "/save"

(* C19 (as claimed): when /save <path> is executed, the text written to the *)
(* file is the content of the most recent assistant message of the session. *)
C19_SaveWritesLastAssistant ==
    [][ReadsLine /\ SaveLine(ma_line') =>
          /\ Len(ma_saved') = Len(ma_saved) + 1
          /\ \E i \in DOMAIN session : session[i].role = "assistant"
          /\ ma_saved'[1].path = shlex_split(ma_line').cmd[2]
          /\ ma_saved'[1].text = LastAssistant(session)]_vars

(* The loop of interact_with is left on this step *)
LeavesLoop == ma_pc = "prompt" /\ ma_pc' # "prompt"

QuitLine(text) ==
    /\ startswith_slash(text)
    /\ shlex_split(text).raised = None
    /\ shlex_split(text).cmd = <<"/quit">>

(* The step is a query of the loop interrupted by Ctrl-C: the line is in    *)
(* the session and nothing after it                                         *)
InterruptedQuery ==
    /\ ReadsLine
    /\ ~startswith_slash(ma_line')
    /\ sends_request(kind)
    /\ session' = Append(session, Msg("user", str_of(ma_line')))

(* C29 (as claimed): the loop ends only on a well-formed /quit, on         *)
(* end-of-input or on an interrupt, and then returns to main without       *)
(* raising; every other line, an empty one included, leaves it running.    *)
C29_LoopEndsOnlyOnQuitOrEOF ==
    [][LeavesLoop =>
          /\ ma_pc' = "inplace"
          /\ \/ ma_line' \in {EOFError, KeyboardInterrupt}
             \/ QuitLine(ma_line')
             \/ InterruptedQuery]_vars

(* The part of C29 the code keeps: /quit, end-of-input and an interrupt    *)
(* end the loop and return to main                                         *)
C29_QuitAndEOFReturn ==
    [][/\ ma_pc = "prompt"
       /\ ma_line' # ma_line \/ ma_turns' # ma_turns
       /\ ma_line' \in {EOFError, KeyboardInterrupt} \/ QuitLine(ma_line')
       => ma_pc' = "inplace"]_vars

-----------------------------------------------------------------------------
(***************************************************************************)
(* retry_ratelimit (frontend.py), as OpenAIFrontend.oneshot uses it:       *)
(* retry_ratelimit(_func, RateLimitError)().  The wrapped call is a        *)
(* request to the provider; what the provider does with each attempt is    *)
(* fixed beforehand in rt_plan.                                            *)
(***************************************************************************)
MaxAttempts == 4

(* What one invocation of func does: it returns, raises the designated    *)
(* exception, or raises another one                                        *)
AttemptOutcomes == {"ok", "ratelimit", "other"}

(* time.sleep(15): the literal, whatever retry_interval is *)
SleepSeconds == 15

(* except exception: the clause catches the designated exception only *)
caught_any(outcome) == outcome # "ok"

caught(outcome) == outcome = "ratelimit"

InitRetry ==
    /\ kind = None /\ topK = 0 /\ session = <<>> /\ ctx = None
    /\ net = NeverFails /\ client = NoClient /\ lastInput = None
    /\ cl_ret = NoReturn /\ cl_http = 0 /\ cl_calls = 0 /\ cl_unreach = FALSE
    /\ SplitIdle
    /\ ReduceIdle /\ GatherIdle /\ MainIdle
    /\ rt_plan \in SeqsUpTo(AttemptOutcomes, MaxAttempts)
    /\ rt_pc = "try"
    /\ rt_attempts = 0 /\ rt_slept = 0 /\ rt_result = NoResult
    /\ SamplingIdle /\ CacheIdle /\ MoreIdle

RetryFrame ==
    UNCHANGED <<kind, topK, session, ctx, client, net, lastInput,
                cl_ret, cl_http, cl_calls, cl_unreach, splitVars,
                reduceVars, gatherVars, mainVars, rt_plan,
                samplingVars, cacheVars, moreVars>>

(* try: result = func(...); break, then return result.  The                *)
(* value of an attempt is the number of the attempt.                       *)
RetryTry ==
    /\ rt_pc = "try"
    /\ rt_attempts < Len(rt_plan)
    /\ rt_attempts' = rt_attempts + 1
    /\ LET outcome == rt_plan[rt_attempts + 1]
       IN  IF outcome = "ok"
           THEN /\ rt_pc' = "returned"
                /\ rt_result' = [how |-> "value", attempt |-> rt_attempts + 1]
           ELSE IF caught(outcome)
           THEN /\ rt_pc' = "except"
                /\ rt_result' = rt_result
           ELSE /\ rt_pc' = "raised"
                /\ rt_result' = [how |-> outcome, attempt |-> rt_attempts + 1]
    /\ rt_slept' = rt_slept
    /\ RetryFrame

(* except exception: console.log(...); time.sleep(15), and round the loop *)
RetrySleep ==
    /\ rt_pc = "except"
    /\ rt_slept' = rt_slept + SleepSeconds
    /\ rt_pc' = "try"
    /\ UNCHANGED <<rt_attempts, rt_result>>
    /\ RetryFrame

NextRetry == RetryTry \/ RetrySleep

SpecRetry == InitRetry /\ [][NextRetry]_vars

(* The wrapper runs on: a thread that is neither ended nor blocked takes   *)
(* its next step                                                           *)
SpecRetryFair == SpecRetry /\ WF_vars(NextRetry)

(* The attempts before attempt n all raised the rate-limit exception *)
AllRateLimited(n) == \A i \in 1 .. n - 1 : rt_plan[i] = "ratelimit"

(* The first attempt of the plan that does not raise the rate-limit        *)
(* exception, 0 when there is none                                         *)
FirstDecisive ==
    IF \E n \in 1 .. Len(rt_plan) : rt_plan[n] # "ratelimit"
    THEN CHOOSE n \in 1 .. Len(rt_plan) :
             rt_plan[n] # "ratelimit" /\ AllRateLimited(n)
    ELSE 0

(* C16: the wrapped call is invoked again after every rate-limit           *)
(* exception, each time after 15 seconds of sleep and however many have    *)
(* occurred; the wrapper returns the value of the first attempt that       *)
(* succeeds, and it does return whenever an attempt succeeds after         *)
(* rate-limit exceptions only; any other exception leaves the wrapper at   *)
(* the attempt that raised it, with no further attempt.                    *)
C16_RetryUntilSuccess ==
    /\ [][/\ rt_pc = "try" /\ rt_attempts' = rt_attempts + 1
             => /\ AllRateLimited(rt_attempts')
                /\ rt_slept = SleepSeconds * rt_attempts
          /\ rt_pc = "except"
             => /\ rt_plan[rt_attempts] = "ratelimit"
                /\ rt_pc' = "try" /\ rt_slept' = rt_slept + SleepSeconds
          /\ rt_pc \in {"returned", "raised"} => UNCHANGED retryVars]_vars
    /\ [](rt_pc = "returned"
            => /\ rt_attempts = FirstDecisive
               /\ rt_plan[rt_attempts] = "ok"
               /\ rt_result = [how |-> "value", attempt |-> rt_attempts])
    /\ [](rt_pc = "raised"
            => /\ rt_attempts = FirstDecisive
               /\ rt_plan[rt_attempts] = "other"
               /\ rt_result = [how |-> "other", attempt |-> rt_attempts])
    /\ [](FirstDecisive > 0 /\ rt_plan[FirstDecisive] = "ok"
            => <>(rt_pc = "returned"))
    /\ [](FirstDecisive > 0 /\ rt_plan[FirstDecisive] = "other"
            => <>(rt_pc = "raised"))

(* The wrapper returned the value of the fourth attempt after three        *)
(* rate-limit exceptions and 45 seconds of sleep                           *)
C16_Witness ==
    /\ rt_pc = "returned"
    /\ rt_attempts = MaxAttempts
    /\ rt_slept = SleepSeconds * (MaxAttempts - 1)
    /\ rt_result = [how |-> "value", attempt |-> MaxAttempts]

-----------------------------------------------------------------------------
(***************************************************************************)
(* Sampling-parameter negotiation of OpenAIFrontend (frontend.py):         *)
(* _collect_sampling_kwargs, _handle_sampling_error and                    *)
(* _chat_completions_create.  self.kwargs is the set of the keywords it    *)
(* holds (their values play no part), an error of the provider is the set  *)
(* of the tokens its lowered text contains.                                *)
(***************************************************************************)
MaxInvocations == 2

(* for key in ('temperature', 'top_p') *)
SamplingKeywords == {"temperature", "top_p"}

(* token_map = {'temperature': ('temperature',), 'top_p': ('top_p', 'top-p')} *)
token_map(param) ==
    IF param = "temperature" THEN {"temperature"} ELSE {"top_p", "top-p"}

Tokens == UNION {token_map(param) : param \in SamplingKeywords}

(* unsupported = [param for param, aliases in token_map.items()            *)
(*                if any(alias in message for alias in aliases)            *)
(*                and param in self.kwargs]                                *)
unsupported(message, kwargs) ==
    {param \in SamplingKeywords :
        token_map(param) \cap message # {} /\ param \in kwargs}

(* for param in unsupported: self.kwargs.pop(param, None) *)
popped_all(kwargs, params) == {}

popped(kwargs, params) == kwargs \ params

(* _handle_sampling_error(exc): whether to retry, and self.kwargs and      *)
(* self._sampling_params_supported afterwards                              *)
handle_sampling_error(kwargs, supported, message) ==
    IF kwargs = {} \/ unsupported(message, kwargs) = {}
    THEN [retry |-> FALSE, kwargs |-> kwargs, supported |-> supported]
    ELSE LET left(k) ==
                 [retry |-> TRUE, kwargs |-> k,
                  supported |-> IF k = {} THEN "False" ELSE "None"]
         IN  left(popped(kwargs, unsupported(message, kwargs)))

(* OpenAIFrontend.__init__: self.kwargs = self._collect_sampling_kwargs(args), *)
(* and _sampling_params_supported is False without keywords, None with     *)
InitSampling ==
    /\ kind = None /\ topK = 0 /\ session = <<>> /\ ctx = None
    /\ net = NeverFails /\ client = NoClient /\ lastInput = None
    /\ cl_ret = NoReturn /\ cl_http = 0 /\ cl_calls = 0 /\ cl_unreach = FALSE
    /\ SplitIdle
    /\ ReduceIdle /\ GatherIdle /\ MainIdle
    /\ RetryIdle
    /\ sa_kwargs \in SUBSET SamplingKeywords
    /\ sa_supported = IF sa_kwargs = {} THEN "False" ELSE "None"
    /\ sa_pc = "called"
    /\ sa_requests = <<>> /\ sa_exc = {} /\ sa_start = sa_kwargs
    /\ sa_calls = 1
    /\ CacheIdle /\ MoreIdle

SamplingFrame ==
    UNCHANGED <<kind, topK, session, ctx, client, net, lastInput,
                cl_ret, cl_http, cl_calls, cl_unreach, splitVars,
                reduceVars, gatherVars, mainVars, retryVars, cacheVars,
                moreVars>>

(* The head of the loop and the request:                                   *)
(*   if self.kwargs and self._sampling_params_supported is False: ... = None *)
(*   if self.kwargs and self._sampling_params_supported is not False:      *)
(*       request_kwargs.update(self.kwargs)                                *)
(*   self.client.chat.completions.create(request_kwargs)                   *)
reevaluated(kwargs, supported) ==
    IF kwargs # {} /\ supported = "False" THEN "None" ELSE supported

request_kwargs(kwargs, supported) ==
    IF kwargs # {} /\ supported # "False" THEN kwargs ELSE {}

SamplingRequest ==
    /\ sa_pc = "called"
    /\ sa_supported' = reevaluated(sa_kwargs, sa_supported)
    /\ sa_requests' = Append(sa_requests,
                             request_kwargs(sa_kwargs, sa_supported'))
    /\ sa_pc' = "requested"
    /\ UNCHANGED <<sa_kwargs, sa_exc, sa_start, sa_calls>>
    /\ SamplingFrame

(* else: if self.kwargs: self._sampling_params_supported = True;           *)
(* return completion                                                       *)
SamplingReturn ==
    /\ sa_pc = "requested"
    /\ sa_supported' = IF sa_kwargs # {} THEN "True" ELSE sa_supported
    /\ sa_pc' = "returned"
    /\ sa_exc' = {}
    /\ UNCHANGED <<sa_kwargs, sa_requests, sa_start, sa_calls>>
    /\ SamplingFrame

(* except Exception as exc: if self.kwargs and                             *)
(* self._sampling_params_supported is not False and                        *)
(* self._handle_sampling_error(exc): continue; raise                       *)
SamplingExcept ==
    /\ sa_pc = "requested"
    /\ \E message \in SUBSET Tokens :
         /\ sa_exc' = message
         /\ IF sa_kwargs # {} /\ sa_supported # "False"
            THEN \E h \in {handle_sampling_error(sa_kwargs, sa_supported,
                                                 message)} :
                     /\ sa_kwargs' = h.kwargs
                     /\ sa_supported' = h.supported
                     /\ sa_pc' = IF h.retry THEN "called" ELSE "raised"
            ELSE /\ sa_pc' = "raised"
                 /\ UNCHANGED <<sa_kwargs, sa_supported>>
    /\ UNCHANGED <<sa_requests, sa_start, sa_calls>>
    /\ SamplingFrame

(* The frontend is asked again: another _chat_completions_create on the    *)
(* same object                                                             *)
SamplingCall ==
    /\ sa_pc \in {"returned", "raised"}
    /\ sa_calls < MaxInvocations
    /\ sa_calls' = sa_calls + 1
    /\ sa_pc' = "called"
    /\ sa_requests' = <<>> /\ sa_exc' = {} /\ sa_start' = sa_kwargs
    /\ UNCHANGED <<sa_kwargs, sa_supported>>
    /\ SamplingFrame

NextSampling ==
    SamplingRequest \/ SamplingReturn \/ SamplingExcept \/ SamplingCall

SpecSampling == InitSampling /\ [][NextSampling]_vars

(* The provider raised on the request of this step *)
Rejected == sa_pc = "requested" /\ sa_pc' \in {"called", "raised"}

(* The keywords of the last request that the error names *)
Offending == unsupported(sa_exc', sa_requests[Len(sa_requests)])

(* An error that names no sampling keyword still held leaves the call as   *)
(* an exception, with no further request                                   *)
PropagatesUnnamed ==
    [][Rejected /\ unsupported(sa_exc', sa_kwargs) = {}
         => sa_pc' = "raised" /\ UNCHANGED <<sa_kwargs, sa_requests>>]_vars

(* C17 as stated: the offending keywords are dropped and the call is       *)
(* retried once, so one _chat_completions_create sends at most two         *)
(* requests; an error naming no remaining keyword propagates.              *)
C17_AtMostTwoRequests ==
    /\ [](Len(sa_requests) <= 2)
    /\ [][Rejected /\ Offending # {}
            => sa_pc' = "called" /\ sa_kwargs' = sa_kwargs \ Offending]_vars
    /\ PropagatesUnnamed

(* C17, amended: every rejection that names keywords of the request drops  *)
(* exactly those and is followed by one more request, without them; so a   *)
(* call sends at most one request more than the keywords it began with     *)
(* (three with both), each with fewer keywords than the one before; an     *)
(* error naming no remaining keyword propagates without a retry.           *)
C17_RetriedOncePerRejection ==
    /\ [](Len(sa_requests) <= 1 + Cardinality(sa_start))
    /\ [](\A i \in 1 .. Len(sa_requests) - 1 :
             /\ sa_requests[i + 1] \subseteq sa_requests[i]
             /\ sa_requests[i + 1] # sa_requests[i])
    /\ [][Rejected /\ Offending # {}
            => sa_pc' = "called" /\ sa_kwargs' = sa_kwargs \ Offending]_vars
    /\ [][sa_pc = "called" /\ sa_pc' = "requested"
            => sa_requests' = Append(sa_requests, sa_kwargs)]_vars
    /\ PropagatesUnnamed

(* A call that held both keywords was rejected for temperature, then for   *)
(* top_p, and returned on its third request                                *)
C17_Witness ==
    /\ sa_pc = "returned"
    /\ sa_requests = <<SamplingKeywords, {"top_p"}, {}>>

-----------------------------------------------------------------------------
(***************************************************************************)
(* Cache (cache.py): a dict subclass over one SQLite table.  ca_store is   *)
(* the set of rows <<key, value blob, stamp>>, key being the primary key   *)
(* and stamp the day the row was written (DEFAULT CURRENT_TIMESTAMP).      *)
(***************************************************************************)
MaxOps == 4

CacheKeys == {"a", "b"}

CacheValues == {"v", "w"}

(* lz4.frame.compress(value.encode()) and lz4.frame.decompress(...).decode() *)
compress(value) == <<"lz4", value>>

decompress(blob) == blob[2]

(* SELECT value FROM cache WHERE key = ?, then cursor.fetchone() *)
fetchone(store, key) == {row \in store : row[1] = key}

KeyError == [raised |-> "KeyError", value |-> None]

Returns(value) == [raised |-> None, value |-> value]

(* Cache.__getitem__ *)
getitem(store, key) ==
    IF fetchone(store, key) # {}
    THEN Returns(decompress((CHOOSE row \in fetchone(store, key) : TRUE)[2]))
    ELSE KeyError

(* Cache.__setitem__: INSERT OR REPLACE INTO cache (key, value); the row   *)
(* written takes the stamp of now                                          *)
setitem(store, key, value, now) ==
    (store \ fetchone(store, key)) \cup {<<key, compress(value), now>>}

(* Cache.__delitem__: DELETE FROM cache WHERE key = ?; KeyError when       *)
(* cursor.rowcount == 0                                                    *)
delitem(store, key) ==
    IF fetchone(store, key) = {}
    THEN [store |-> store, out |-> KeyError]
    ELSE [store |-> store \ fetchone(store, key), out |-> Returns(None)]

(* Cache.pop(key, default=None): try: value = self[key]; del self[key];    *)
(* return value; except KeyError: return default                           *)
pop(store, key, default) ==
    IF getitem(store, key) = KeyError
    THEN [store |-> store, out |-> Returns(default)]
    ELSE IF delitem(store, key).out = KeyError
    THEN [store |-> store, out |-> Returns(default)]
    ELSE [store |-> delitem(store, key).store, out |-> getitem(store, key)]

(* Cache.clear: DELETE FROM cache *)
clear(store) == {}

(* Cache._cleanup_expired: DELETE FROM cache WHERE stamp < DATETIME("now", *)
(* "-1 day")                                                               *)
cleanup_expired(store, now) == {row \in store : ~(row[3] < now - 1)}

(* Cache.popitem with SELECT key, value FROM cache LIMIT 1 giving row:     *)
(* del self[key]; return (key, value)                                      *)
popitem(store, row) ==
    [store |-> delitem(store, row[1]).store,
     out |-> Returns(<<row[1], decompress(row[2])>>)]

(* value.encode() of a default that is None *)
AttributeErrorOfNone == [raised |-> "AttributeError", value |-> None]

(* Cache.setdefault(key, default): if key in self: return self[key];       *)
(* self[key] = default; return default                                     *)
setdefault(store, key, default, now) ==
    IF fetchone(store, key) # {}
    THEN [store |-> store, out |-> getitem(store, key)]
    ELSE IF default = None
    THEN [store |-> store, out |-> AttributeErrorOfNone]
    ELSE [store |-> setitem(store, key, default, now), out |-> Returns(default)]

(* Cache.update(other): for key, value in other.items(): self[key] = value; *)
(* other is a function from its keys to values                             *)
RECURSIVE update(_, _, _)
update(store, other, now) ==
    IF DOMAIN other = {} THEN store
    ELSE LET key == CHOOSE k \in DOMAIN other : TRUE
         IN  update(setitem(store, key, other[key], now),
                    [k \in DOMAIN other \ {key} |-> other[k]], now)

(* The dicts update is called with *)
Others == UNION {[keys -> CacheValues] : keys \in SUBSET CacheKeys}

(* Cache(db_name) on a new database file: _create_table, _cleanup_expired *)
InitCache ==
    /\ kind = None /\ topK = 0 /\ session = <<>> /\ ctx = None
    /\ net = NeverFails /\ client = NoClient /\ lastInput = None
    /\ cl_ret = NoReturn /\ cl_http = 0 /\ cl_calls = 0 /\ cl_unreach = FALSE
    /\ SplitIdle
    /\ ReduceIdle /\ GatherIdle /\ MainIdle
    /\ RetryIdle /\ SamplingIdle
    /\ ca_store = {} /\ ca_last = NoOperation /\ ca_ops = 0 /\ ca_now = 0
    /\ MoreIdle

CacheFrame ==
    UNCHANGED <<kind, topK, session, ctx, client, net, lastInput,
                cl_ret, cl_http, cl_calls, cl_unreach, splitVars,
                reduceVars, gatherVars, mainVars, retryVars, samplingVars,
                moreVars>>

Operation(op, key, out) == [op |-> op, key |-> key, out |-> out]

(* cache[key] = value *)
SetItem ==
    /\ ca_ops < MaxOps
    /\ \E key \in CacheKeys, value \in CacheValues :
         /\ ca_store' = setitem(ca_store, key, value, ca_now)
         /\ ca_last' = Operation("setitem", key, Returns(None))
    /\ ca_ops' = ca_ops + 1
    /\ UNCHANGED ca_now
    /\ CacheFrame

(* cache[key] *)
GetItem ==
    /\ ca_ops < MaxOps
    /\ \E key \in CacheKeys :
         ca_last' = Operation("getitem", key, getitem(ca_store, key))
    /\ ca_store' = ca_store
    /\ ca_ops' = ca_ops + 1
    /\ UNCHANGED ca_now
    /\ CacheFrame

(* del cache[key] *)
DelItem ==
    /\ ca_ops < MaxOps
    /\ \E key \in CacheKeys :
         /\ ca_store' = delitem(ca_store, key).store
         /\ ca_last' = Operation("delitem", key, delitem(ca_store, key).out)
    /\ ca_ops' = ca_ops + 1
    /\ UNCHANGED ca_now
    /\ CacheFrame

(* cache.pop(key) *)
Pop ==
    /\ ca_ops < MaxOps
    /\ \E key \in CacheKeys :
         /\ ca_store' = pop(ca_store, key, None).store
         /\ ca_last' = Operation("pop", key, pop(ca_store, key, None).out)
    /\ ca_ops' = ca_ops + 1
    /\ UNCHANGED ca_now
    /\ CacheFrame

(* cache.clear() *)
Clear ==
    /\ ca_ops < MaxOps
    /\ ca_store' = clear(ca_store)
    /\ ca_last' = Operation("clear", None, Returns(None))
    /\ ca_ops' = ca_ops + 1
    /\ UNCHANGED ca_now
    /\ CacheFrame

(* cache.popitem(): LIMIT 1 without ORDER BY gives any one row; KeyError    *)
(* on an empty table                                                        *)
PopItem ==
    /\ ca_ops < MaxOps
    /\ IF ca_store = {}
       THEN /\ ca_last' = Operation("popitem", None, KeyError)
            /\ ca_store' = ca_store
       ELSE \E row \in ca_store :
              /\ ca_store' = popitem(ca_store, row).store
              /\ ca_last' = Operation("popitem", None,
                                      popitem(ca_store, row).out)
    /\ ca_ops' = ca_ops + 1
    /\ UNCHANGED ca_now
    /\ CacheFrame

(* cache.setdefault(key) and cache.setdefault(key, default) *)
SetDefault ==
    /\ ca_ops < MaxOps
    /\ \E key \in CacheKeys, default \in CacheValues \cup {None} :
         /\ ca_store' = setdefault(ca_store, key, default, ca_now).store
         /\ ca_last' = Operation("setdefault", key,
                                 setdefault(ca_store, key, default, ca_now).out)
    /\ ca_ops' = ca_ops + 1
    /\ UNCHANGED ca_now
    /\ CacheFrame

(* cache.update(other) *)
Update ==
    /\ ca_ops < MaxOps
    /\ \E other \in Others :
         ca_store' = update(ca_store, other, ca_now)
    /\ ca_last' = Operation("update", None, Returns(None))
    /\ ca_ops' = ca_ops + 1
    /\ UNCHANGED ca_now
    /\ CacheFrame

(* A day passes; no operation of the cache is under way *)
Day ==
    /\ ca_ops < MaxOps
    /\ ca_now' = ca_now + 1
    /\ ca_ops' = ca_ops + 1
    /\ ca_last' = NoOperation
    /\ UNCHANGED ca_store
    /\ CacheFrame

(* Cache(db_name) on the file as it is: _create_table, _cleanup_expired *)
Open ==
    /\ ca_ops < MaxOps
    /\ ca_store' = cleanup_expired(ca_store, ca_now)
    /\ ca_last' = Operation("init", None, Returns(None))
    /\ ca_ops' = ca_ops + 1
    /\ UNCHANGED ca_now
    /\ CacheFrame

NextCache ==
    \/ SetItem \/ GetItem \/ DelItem \/ Pop
    \/ Clear \/ PopItem \/ SetDefault \/ Update
    \/ Day \/ Open

SpecCache == InitCache /\ [][NextCache]_vars

(* The step is a read, a delete or a pop without a default of a key the    *)
(* store does not hold                                                     *)
OnAbsentKey(ops) ==
    /\ ca_ops' = ca_ops + 1
    /\ ca_last'.op \in ops
    /\ fetchone(ca_store, ca_last'.key) = {}

(* C20: after any sequence of operations, reading, deleting or popping     *)
(* (without a default) a key that is absent from the store raises KeyError *)
(* and leaves the store unchanged.                                         *)
C20_AbsentKeyRaises ==
    [][OnAbsentKey({"getitem", "delitem", "pop"})
         => ca_last'.out = KeyError /\ ca_store' = ca_store]_vars

(* The part of C20 that the code keeps: reading and deleting *)
C20_AbsentKeyRaisesOnReadAndDelete ==
    [][OnAbsentKey({"getitem", "delitem"})
         => ca_last'.out = KeyError /\ ca_store' = ca_store]_vars

-----------------------------------------------------------------------------
(***************************************************************************)
(* SpecReject: update_session on a frontend without a vector client, with  *)
(* inputs that _check or the type dispatch rejects among the valid ones.   *)
(***************************************************************************)

(* Dicts _check rejects: an illegal role, no content, no role *)
BadMessages == {Msg("tool", "x"), [role |-> "user"], [content |-> "x"]}

BadInputs ==
    {[type |-> "dict", val |-> m] : m \in BadMessages}
    \cup {[type |-> "list", val |-> <<Msg("user", "q"), Msg("tool", "x")>>],
          [type |-> "int", val |-> <<>>]}

(* The exception update_session ends with, None when it returns *)
exception_of(input, u) ==
    IF ~u.raised THEN None
    ELSE IF input.type \notin {"list", "dict", "str"} THEN "TypeError"
    ELSE "AssertionError"

InitReject ==
    /\ kind \in {"echo", "openai"}
    /\ session = InitSession(kind, FALSE)
    /\ ctx = None /\ client = NoClient /\ topK = 0 /\ net = NeverFails
    /\ lastInput = None
    /\ cl_ret = NoReturn /\ cl_http = 0 /\ cl_calls = 0 /\ cl_unreach = FALSE
    /\ SplitIdle
    /\ ReduceIdle /\ GatherIdle /\ MainIdle
    /\ RetryIdle /\ SamplingIdle /\ CacheIdle
    /\ us_raised = None
    /\ DbIdle /\ TailIdle

(* f.update_session(messages) *)
RejectUpdate(input) ==
    /\ \E u \in {update_session(Self, input, topK, "empty")} :
         /\ Becomes(u.F)
         /\ us_raised' = exception_of(input, u)
    /\ lastInput' = input.type
    /\ UNCHANGED <<kind, topK>>
    /\ UNCHANGED clientVars
    /\ UNCHANGED splitVars
    /\ UNCHANGED <<reduceVars, gatherVars, mainVars, retryVars, samplingVars,
                   cacheVars, dbVars, tailVars>>

NextReject == \E input \in Inputs \cup BadInputs : RejectUpdate(input)

SpecReject == InitReject /\ [][NextReject]_vars

(* C30: when update_session raises, the session is what it was before the  *)
(* call, and it still passes _check.                                       *)
C30_RejectedInputLeavesSession ==
    [][us_raised' # None /\ check(session)
         => session' = session /\ check(session')]_vars

(* The part of C30 the code keeps: an unsupported input type leaves the    *)
(* session as it was                                                       *)
C30_TypeErrorLeavesSession ==
    [][us_raised' = "TypeError" /\ lastInput' = "int" => session' = session]_vars

-----------------------------------------------------------------------------
(***************************************************************************)
(* SpecMirror: one frontend whose vector client is enabled, with the       *)
(* POST /message requests the microservice answered kept in client.posted. *)
(***************************************************************************)
MaxPosts == 3

(* VectorEchoFrontend, OpenAIFrontend, ZMQFrontend *)
MirrorKinds == {"vectorecho", "openai", "zmq"}

WatchedClient ==
    [present |-> TRUE, enabled |-> TRUE, checked |-> FALSE,
     available |-> FALSE, posted |-> <<>>]

InitMirror ==
    /\ kind \in MirrorKinds
    /\ session = InitSession(kind, FALSE)
    /\ ctx = None
    /\ client = WatchedClient
    /\ topK \in {0, 2}
    /\ net \in {NeverFails} \cup (0 .. MaxOk)
    /\ lastInput = None
    /\ cl_ret = NoReturn /\ cl_http = 0 /\ cl_calls = 0 /\ cl_unreach = FALSE
    /\ SplitIdle
    /\ LaterIdle

(* f.query(messages) *)
MirrorQuery(input) ==
    /\ \E data \in FrontendData, reply \in Replies, fails \in BOOLEAN :
         \E data2 \in IF kind = "zmq" THEN FrontendData ELSE {data} :
           \E r \in {query(kind, Self, input, topK, data, reply, fails, data2)} :
             /\ Len(r.F.client.posted) <= MaxPosts
             /\ Becomes(r.F)
    /\ lastInput' = input.type
    /\ UNCHANGED <<kind, topK>>
    /\ UNCHANGED clientVars
    /\ UNCHANGED splitVars
    /\ UNCHANGED laterVars

(* f.reset() *)
MirrorReset ==
    /\ Becomes(reset(Self))
    /\ lastInput' = None
    /\ UNCHANGED <<kind, topK>>
    /\ UNCHANGED clientVars
    /\ UNCHANGED splitVars
    /\ UNCHANGED laterVars

NextMirror == (\E input \in Inputs : MirrorQuery(input)) \/ MirrorReset

SpecMirror == InitMirror /\ [][NextMirror]_vars

(* The messages a step added behind the session it found *)
Entered == SubSeq(session', Len(session) + 1, Len(session'))

(* The requests the microservice answered during a step *)
NewPosts == SubSeq(client'.posted, Len(client.posted) + 1, Len(client'.posted))

(* What mirroring each user or assistant message of s once sends *)
RECURSIVE Mirrored(_)
Mirrored(s) ==
    IF s = <<>> THEN <<>>
    ELSE IF Head(s).role \in {"user", "assistant"}
    THEN <<[role |-> Head(s).role, text |-> strip(Head(s).content)]>>
         \o Mirrored(Tail(s))
    ELSE Mirrored(Tail(s))

(* A query with a string or dict input, after which the client is still    *)
(* enabled                                                                 *)
QueryWhileActive(kinds) ==
    /\ kind \in kinds
    /\ lastInput' \in {"str", "dict"}
    /\ Len(session') > Len(session)
    /\ client.enabled /\ client'.enabled

(* C27 (as claimed): while the vector client is active, each user or       *)
(* assistant message that a query adds to the session is sent to the       *)
(* vector service exactly once, with its role, on every frontend,          *)
(* ZMQFrontend with an injected context message included.                  *)
C27_MirroredExactlyOnce ==
    [][QueryWhileActive(MirrorKinds) => NewPosts = Mirrored(Entered)]_vars

(* The part of C27 the code keeps: the frontends other than ZMQFrontend *)
C27_MirroredExactlyOnceNotZMQ ==
    [][QueryWhileActive(MirrorKinds \ {"zmq"}) => NewPosts = Mirrored(Entered)]_vars

-----------------------------------------------------------------------------
(***************************************************************************)
(* VectorDB (vectordb.py) and VectorRetriever.retrieve_onfly               *)
(* (retrieval.py).  Vectors have integer components and a norm of 1 or 5,  *)
(* so that a unit vector times 5 is an integer vector: similarities are    *)
(* kept times 25 (retrieve) and as plain dot products (retrieve_onfly).    *)
(***************************************************************************)
MaxRows == 4        \* most rows ever added
MaxDocs == 3        \* most documents of a list
MaxK == 3           \* largest topk

(* VectorDB(db_name, dimension) *)
Dim == 2

(* What add_vector is given, and what a query or a document embeds to *)
Vectors == {<<1, 0>>, <<3, 4>>, <<0, -5, 7>>}

Embeddings == {<<1, 0>>, <<-4, 3>>}

(* vector_np[:self.dim] *)
reduction(v) == SubSeq(v, 1, Dim)

RECURSIVE dot(_, _)
dot(a, b) == IF a = <<>> THEN 0 ELSE Head(a) * Head(b) + dot(Tail(a), Tail(b))

(* np.linalg.norm *)
norm(v) == CHOOSE r \in 0 .. 5 : r * r = dot(v, v)

(* v / np.linalg.norm(v), times 5 *)
unit5(v) == [i \in DOMAIN v |-> v[i] * (5 \div norm(v))]

(* add_vector: the row INSERT stores; the id comes from AUTOINCREMENT *)
add_vector(rows, id, source, vector) ==
    Append(rows, [id |-> id, source |-> source,
                  vector |-> unit5(reduction(vector))])

(* delete_vector: DELETE FROM vectors WHERE id = ? *)
delete_vector(rows, id) == SelectSeq(rows, LAMBDA row : row.id # id)

(* get_vector: the row of that id *)
get_vector(rows, id) == CHOOSE row \in {rows[i] : i \in DOMAIN rows} : row.id = id

(* cosine = (matrix @ vector.reshape(-1, 1)).flatten(), vector normalised *)
cosines(rows, vector) ==
    [i \in DOMAIN rows |-> dot(rows[i].vector, unit5(vector))]

(* np.argsort: the orders of the positions that put the values in          *)
(* ascending order; equal values may come in any order                     *)
RECURSIVE ascending(_, _)
ascending(values, positions) ==
    IF positions = {} THEN {<<>>}
    ELSE UNION {{<<i>> \o rest : rest \in ascending(values, positions \ {i})} :
                   i \in {j \in positions :
                             \A k \in positions : values[j] <= values[k]}}

argsort(values) == ascending(values, DOMAIN values)

(* [::-1] *)
kept_order(order) == order

reversed(order) == [i \in DOMAIN order |-> order[Len(order) + 1 - i]]

(* [:topk], topk >= 0 *)
first(order, topk) ==
    SubSeq(order, 1, IF topk < Len(order) THEN topk ELSE Len(order))

(* retrieve, given what argsort returned: [sim, source, text] of each      *)
(* chosen row, text being the source again                                 *)
retrieve(rows, vector, topk, order) ==
    LET chosen(argsorted) ==
            [i \in DOMAIN argsorted |->
                [sim |-> cosines(rows, vector)[argsorted[i]],
                 source |-> get_vector(rows, rows[argsorted[i]].id).source]]
    IN  chosen(first(reversed(order), topk))

(* retrieve_onfly, given the embeddings and what argsort returned:         *)
(* [float(sim), '<temporary>', doc].  With no document batch_embed ends in *)
(* np.stack of an empty list, which raises ValueError.                     *)
retrieve_onfly(query_embedding, documents, topk, order) ==
    LET chosen(indices) ==
            [i \in DOMAIN indices |->
                [sim |-> dot(documents[indices[i]].embedding, query_embedding),
                 source |-> "<temporary>"]]
    IN  IF documents = <<>>
        THEN [raised |-> "ValueError", docs |-> <<>>]
        ELSE [raised |-> None, docs |-> chosen(first(reversed(order), topk))]

(* cosine = np.dot(document_embeddings, query_embedding) *)
onfly_cosines(query_embedding, documents) ==
    [i \in DOMAIN documents |-> dot(documents[i].embedding, query_embedding)]

Sources == {"a"}

InitRetrieve ==
    /\ kind = None /\ topK = 0 /\ session = <<>> /\ ctx = None
    /\ net = NeverFails /\ client = NoClient /\ lastInput = None
    /\ cl_ret = NoReturn /\ cl_http = 0 /\ cl_calls = 0 /\ cl_unreach = FALSE
    /\ SplitIdle
    /\ ReduceIdle /\ GatherIdle /\ MainIdle
    /\ RetryIdle /\ SamplingIdle /\ CacheIdle
    /\ RejectIdle
    /\ vd_rows = <<>> /\ vd_next = 1 /\ vd_ret = NotRetrieved
    /\ TailIdle

RetrieveFrame ==
    UNCHANGED <<kind, topK, session, ctx, client, net, lastInput,
                cl_ret, cl_http, cl_calls, cl_unreach, splitVars,
                reduceVars, gatherVars, mainVars, retryVars, samplingVars,
                cacheVars, rejectVars, tailVars>>

(* db.add_vector(source, text, model, vector) *)
AddVector ==
    /\ vd_next <= MaxRows
    /\ \E source \in Sources, vector \in Vectors :
         vd_rows' = add_vector(vd_rows, vd_next, source, vector)
    /\ vd_next' = vd_next + 1
    /\ vd_ret' = NotRetrieved
    /\ RetrieveFrame

(* db.delete_vector(vector_id) *)
DeleteVector ==
    /\ \E id \in 1 .. vd_next - 1 : vd_rows' = delete_vector(vd_rows, id)
    /\ vd_ret' = NotRetrieved
    /\ UNCHANGED vd_next
    /\ RetrieveFrame

(* db.retrieve(vector, topk) on a table that holds a row *)
Retrieve ==
    /\ vd_rows # <<>>
    /\ \E vector \in Embeddings, topk \in 1 .. MaxK :
         \E order \in argsort(cosines(vd_rows, vector)) :
           vd_ret' = [fn |-> "retrieve", topk |-> topk, n |-> Len(vd_rows),
                      raised |-> None,
                      docs |-> retrieve(vd_rows, vector, topk, order)]
    /\ UNCHANGED <<vd_rows, vd_next>>
    /\ RetrieveFrame

(* retriever.retrieve_onfly(query, documents, topk): the embedding model   *)
(* gives the query and each document a vector.  It reads no database, and  *)
(* is called here on the new one.                                          *)
RetrieveOnfly ==
    /\ vd_rows = <<>> /\ vd_next = 1
    /\ \E query_embedding \in Embeddings, topk \in 1 .. MaxK :
         \E documents \in SeqsUpTo([doc : Sources,
                                     embedding : Embeddings \cup {<<3, 4>>}],
                                    MaxDocs) :
           \E order \in argsort(onfly_cosines(query_embedding, documents)) :
             vd_ret' = [fn |-> "retrieve_onfly", topk |-> topk,
                        n |-> Len(documents),
                        raised |-> retrieve_onfly(query_embedding, documents,
                                                  topk, order).raised,
                        docs |-> retrieve_onfly(query_embedding, documents,
                                                topk, order).docs]
    /\ UNCHANGED <<vd_rows, vd_next>>
    /\ RetrieveFrame

NextRetrieve == AddVector \/ DeleteVector \/ Retrieve \/ RetrieveOnfly

SpecRetrieve == InitRetrieve /\ [][NextRetrieve]_vars

(* C21: a retrieval over n >= 1 rows (or n candidate documents) with       *)
(* topk >= 1 returns its results in descending order of similarity, and    *)
(* returns no more than topk and no more than n of them.                   *)
C21_TopKDescending ==
    (vd_ret # NotRetrieved /\ vd_ret.n >= 1) =>
        /\ vd_ret.raised = None
        /\ \A i, j \in DOMAIN vd_ret.docs :
               i < j => vd_ret.docs[i].sim >= vd_ret.docs[j].sim
        /\ Len(vd_ret.docs) <= vd_ret.topk
        /\ Len(vd_ret.docs) <= vd_ret.n

(* Three rows, the ids of the table no longer 1, 2, 3, of which retrieve   *)
(* returned two of different similarity                                    *)
C21_Witness ==
    /\ vd_ret # NotRetrieved
    /\ vd_ret.fn = "retrieve"
    /\ vd_ret.n = 3 /\ vd_ret.topk = 2
    /\ Len(vd_ret.docs) = 2
    /\ vd_ret.docs[1].sim > vd_ret.docs[2].sim
    /\ \E i \in DOMAIN vd_rows : vd_rows[i].id > i

(***************************************************************************)
(* SpecPolicy: debgpt/policy.py, DebianPolicy.__getitem__ on a string key. *)
(* A line of the document is a record: index is the section number a       *)
(* heading line starts with ("1.1. Title" has index <<1, 1>>), rule is the *)
(* separator an underline starts with, text tells body lines apart.        *)
(***************************************************************************)
MaxHeads == 4

SEP_SECTION == "***"
SEP_SUBSECTION == "==="
SEP_SUBSUBSECTION == "---"

title_line(index) == [index |-> index, rule |-> "", text |-> 0]
rule_line(sep) == [index |-> <<>>, rule |-> sep, text |-> 0]
body_line(n) == [index |-> <<>>, rule |-> "", text |-> n]

(* The separator table of __getitem__, keyed by len(index.split('.')) *)
sep_of(n) ==
    CASE n = 1 -> SEP_SECTION
      [] n = 2 -> SEP_SUBSECTION
      [] n = 3 -> SEP_SUBSUBSECTION

(* The for loop of __getitem__ from line i on *)
RECURSIVE scan(_, _, _, _, _, _, _)
scan(lines, i, index, sep, ret, prev, in_range) ==
    IF i > Len(lines) THEN ret
    ELSE IF lines[i].rule = sep /\ prev.index = index
         THEN scan(lines, i + 1, index, sep, ret \o <<prev, lines[i]>>,
                   lines[i], TRUE)
    ELSE IF lines[i].rule = sep /\ in_range
         THEN SubSeq(ret, 1, Len(ret) - 1)
    ELSE IF in_range
         THEN scan(lines, i + 1, index, sep, Append(ret, lines[i]), lines[i],
                   in_range)
    ELSE scan(lines, i + 1, index, sep, ret, lines[i], in_range)

(* policy[index], index a string of dot-separated segments *)
policy_getitem(lines, index) ==
    IF Len(index) \notin 1 .. 3
    THEN [raised |-> "KeyError", text |-> <<>>]
    ELSE [raised |-> None,
          text |-> scan(lines, 1, index, sep_of(Len(index)), <<>>,
                        body_line(0), FALSE)]

(* The headings a document may hold, in document order *)
HeadList ==
    << <<1>>, <<1, 1>>, <<1, 1, 1>>, <<1, 2>>, <<2>>, <<2, 1>>, <<3>> >>

(* The section numbers asked for: those of HeadList and some of no document *)
SectionsAsked ==
    {HeadList[i] : i \in DOMAIN HeadList}
        \cup {<<4>>, <<2, 2>>, <<3, 1, 1>>, <<1, 2, 3, 4>>, <<1, 1, 1, 1, 1>>}

(* The lines of a document: a preamble line, then for every heading picked *)
(* its title, its underline and one line of body                           *)
RECURSIVE document(_, _)
document(picks, k) ==
    IF k > Len(picks) THEN <<>>
    ELSE << title_line(HeadList[picks[k]]),
            rule_line(sep_of(Len(HeadList[picks[k]]))),
            body_line(picks[k]) >> \o document(picks, k + 1)

Documents ==
    {<<body_line(9)>> \o document(picks, 1) :
        picks \in {p \in SeqsUpTo(DOMAIN HeadList, MaxHeads) :
                      \A i, j \in DOMAIN p : i < j => p[i] < p[j]}}

InitPolicy ==
    /\ kind = None /\ topK = 0 /\ session = <<>> /\ ctx = None
    /\ net = NeverFails /\ client = NoClient /\ lastInput = None
    /\ cl_ret = NoReturn /\ cl_http = 0 /\ cl_calls = 0 /\ cl_unreach = FALSE
    /\ SplitIdle
    /\ ReduceIdle /\ GatherIdle /\ MainIdle
    /\ RetryIdle /\ SamplingIdle /\ CacheIdle
    /\ RejectIdle /\ DbIdle /\ ServiceIdle
    /\ po_lines \in Documents
    /\ po_ret = NotAsked

(* policy[index] *)
PolicyGetItem ==
    /\ \E index \in SectionsAsked :
         po_ret' = [asked |-> TRUE, index |-> index,
                    out |-> policy_getitem(po_lines, index)]
    /\ UNCHANGED po_lines
    /\ UNCHANGED <<kind, topK, session, ctx, client, net, lastInput,
                   clientVars, splitVars, reduceVars, gatherVars, mainVars,
                   retryVars, samplingVars, cacheVars, rejectVars, dbVars,
                   serviceVars>>

NextPolicy == PolicyGetItem

SpecPolicy == InitPolicy /\ [][NextPolicy]_vars

(* The line numbers of the headings of a document: a heading is a title    *)
(* line with an underline below it                                         *)
HeadingsOf(lines) ==
    {i \in 1 .. Len(lines) - 1 :
        lines[i].index # <<>> /\ lines[i + 1].rule # ""}

Present(lines, index) == \E i \in HeadingsOf(lines) : lines[i].index = index

(* The lines from heading i up to, and not including, the next heading     *)
(* for which Closes holds                                                    *)
UpToNext(lines, i, Closes(_)) ==
    LET later(j) == {h \in HeadingsOf(lines) : h > j /\ Closes(h)}
        stop(j) == IF later(j) = {} THEN Len(lines) + 1
                   ELSE CHOOSE h \in later(j) : \A g \in later(j) : h <= g
    IN  SubSeq(lines, i, stop(i) - 1)

(* C25: for a section number present in the document, the extraction       *)
(* returns the lines from that section's heading up to, and not including, *)
(* the next heading at the same or a shallower level.                      *)
C25_SectionEndsAtSameOrShallower ==
    (po_ret.asked /\ Present(po_lines, po_ret.index)) =>
        /\ po_ret.out.raised = None
        /\ \E i \in HeadingsOf(po_lines) :
             LET shallower(h) == Len(po_lines[h].index) <= Len(po_ret.index)
             IN  /\ po_lines[i].index = po_ret.index
                 /\ po_ret.out.text = UpToNext(po_lines, i, shallower)

(* What the scan does: the section ends at the next heading of the same    *)
(* level, or where the document ends                                       *)
C25_SectionEndsAtSameLevel ==
    (po_ret.asked /\ Present(po_lines, po_ret.index)) =>
        /\ po_ret.out.raised = None
        /\ \E i \in HeadingsOf(po_lines) :
             LET same(h) == Len(po_lines[h].index) = Len(po_ret.index)
             IN  /\ po_lines[i].index = po_ret.index
                 /\ po_ret.out.text = UpToNext(po_lines, i, same)

(* C26: for a section number that is in no heading of the document,        *)
(* whatever its number of segments, the extraction returns the empty       *)
(* string and raises nothing.                                              *)
C26_AbsentSectionYieldsEmpty ==
    (po_ret.asked /\ ~Present(po_lines, po_ret.index)) =>
        /\ po_ret.out.raised = None
        /\ po_ret.out.text = <<>>

(* The same for section numbers of one, two or three segments *)
C26_AbsentUpToThreeSegments ==
    (po_ret.asked /\ ~Present(po_lines, po_ret.index)
        /\ Len(po_ret.index) <= 3) =>
        /\ po_ret.out.raised = None
        /\ po_ret.out.text = <<>>

(***************************************************************************)
(* SpecService: debgpt/vector_service/app.py, the endpoints POST /message, *)
(* POST /generate and DELETE /conversation/{id}.  sv_rows is the messages  *)
(* table, sv_points the collection of the vector index, each a set of      *)
(* records keyed by id.  The handlers are sync functions run on a thread   *)
(* pool: a request is handled in steps, one for each read or write of a    *)
(* store, and the steps of the requests under way interleave.  Whether the *)
(* embedder, the vector index, the database or the generation backend      *)
(* raises during a step is an input of the step.                           *)
(***************************************************************************)
MaxRequests == 2

(* history_rows[-20:] *)
HistoryLimit == 20

(* int(time.time()) *)
Now == 30

Conversations == {"c1", "c2"}
MessageRoles == {"user", "assistant", "system"}
MessageTexts == {"t"}
BackendReplies == {"r"}
(* MessageIn.timestamp; 0 stands for an absent one as well *)
MessageTimestamps == {0, 1}
BackendNames == {None, "", "OpenAI", "nope"}
Faults == {"none", "embedding", "upsert", "commit", "delete", "backend"}

BACKENDS ==
    {"ollama", "llamacpp", "llama.cpp", "llama_cpp", "openai", "google",
     "vertex", "hf", "huggingface"}

default_backend == "ollama"

(* name.lower() *)
lower(name) == IF name = "OpenAI" THEN "openai" ELSE name

(* The Message record, and the payload of the point, of one message *)
record_of(id, msg, timestamp) ==
    [id |-> id, conversation_id |-> msg.conversation_id, role |-> msg.role,
     text |-> msg.text, timestamp |-> timestamp]

(* client.upsert(points=[point]) *)
upsert(points, point) == {p \in points : p.id # point.id} \cup {point}

(* client.delete(points=ids) *)
delete_points(points, ids) == {p \in points : p.id \notin ids}

role_accepted_any(role) == TRUE

(* msg.role in ("user", "assistant") *)
role_accepted(role) == role \in {"user", "assistant"}

(* _persist_message(msg, db, client, embedder) up to client.upsert, uuid4  *)
(* giving next + 1.  ndim is embedding.ndim; fault tells which call        *)
(* raises, if any.  status is that of the HTTP error it ends with, 0 when  *)
(* it goes on to db.add(record).                                           *)
persist_upsert(msg, points, next, ndim, fault) ==
    LET timestamp(m) == IF m.timestamp # 0 THEN m.timestamp ELSE Now
        made(m) == record_of(next + 1, m, timestamp(m))
    IN  IF ~role_accepted(msg.role)
        THEN [status |-> 400, points |-> points, next |-> next,
              record |-> None]
        ELSE IF ndim # 1
        THEN [status |-> 400, points |-> points, next |-> next + 1,
              record |-> None]
        ELSE IF fault = "upsert"
        THEN [status |-> 500, points |-> points, next |-> next + 1,
              record |-> None]
        ELSE [status |-> 0, points |-> upsert(points, made(msg)),
              next |-> next + 1, record |-> made(msg)]

(* The rest of _persist_message: db.add(record); db.commit();              *)
(* return SaveResponse(id=message_id)                                      *)
persist_commit(record, rows, fault) ==
    IF fault = "commit"
    THEN [status |-> 500, id |-> 0, rows |-> rows]
    ELSE [status |-> 200, id |-> record.id, rows |-> rows \cup {record}]

(* db.query(Message).filter(Message.conversation_id == conversation_id) *)
of_conversation(rows, conversation_id) ==
    {r \in rows : r.conversation_id = conversation_id}

(* .order_by(Message.timestamp.asc()).all(): every order the database may  *)
(* give rows of equal timestamp                                            *)
RECURSIVE by_timestamp(_)
by_timestamp(rows) ==
    IF rows = {} THEN {<<>>}
    ELSE LET firsts(rs) ==
                 {r \in rs : \A q \in rs : r.timestamp <= q.timestamp}
         IN  UNION {{<<r>> \o s : s \in by_timestamp(rows \ {r})} :
                       r \in firsts(rows)}

all_rows(history_rows, n) == history_rows

(* history_rows[-n:] *)
last_rows(history_rows, n) ==
    SubSeq(history_rows,
           IF Len(history_rows) > n THEN Len(history_rows) - n + 1 ELSE 1,
           Len(history_rows))

(* f"{row.role}: {row.text}" *)
history_line(role, text) == <<role, ": ", text>>

(* The lines of "\n".join(texts): one empty line when texts is empty *)
joined(texts) == IF texts = <<>> THEN << <<>> >> ELSE texts

(* f"{history_text}\nuser: {request.prompt}\nassistant:", as its lines *)
prompt_of(history, prompt) ==
    joined([i \in DOMAIN history |->
               history_line(history[i].role, history[i].text)])
        \o <<history_line("user", prompt), <<"assistant", ":">> >>

(* backends.generate_with_backend(name, prompt, options): the reply, or    *)
(* what is raised                                                          *)
generate_with_backend(name, prompt, fault, reply) ==
    IF lower(name) \notin BACKENDS THEN [raised |-> "ValueError", reply |-> ""]
    ELSE IF fault = "backend" THEN [raised |-> "Exception", reply |-> ""]
    ELSE [raised |-> None, reply |-> reply]

(* backend_name = request.backend or settings.default_backend *)
backend_name(request) ==
    IF request.backend \notin {None, ""} THEN request.backend
    ELSE default_backend

(* generate(request, db, client, embedder) up to the prompt: history_rows  *)
(* is what the ordered query returned                                      *)
generate(request, history_rows) ==
    LET history(q) == last_rows(history_rows, HistoryLimit)
    IN  [history |-> history(request),
         prompt |-> prompt_of(history(request), request.prompt)]

(* assistant_message = MessageIn(conversation_id=..., role="assistant",    *)
(* text=reply)                                                             *)
assistant_message(conversation_id, reply) ==
    [conversation_id |-> conversation_id, role |-> "assistant",
     text |-> reply, timestamp |-> 0]

(* ids = [row.id for row in db.query(Message).filter(...).all()] *)
ids_read(conversation_id, rows) ==
    {r.id : r \in of_conversation(rows, conversation_id)}

(* db.query(Message).filter(Message.id.in_(ids)).delete(); db.commit() *)
delete_rows(rows, ids) == {r \in rows : r.id \notin ids}

(* The table after n messages were saved to conversation c1, one a second  *)
(* but for the first two, which bear the same timestamp                    *)
Stored(n) ==
    {[id |-> i, conversation_id |-> "c1",
      role |-> IF i % 2 = 1 THEN "user" ELSE "assistant", text |-> "t",
      timestamp |-> IF i = 1 THEN 2 ELSE i] : i \in 1 .. n}

StoredSizes == {HistoryLimit - 1, HistoryLimit + 1}

InitService ==
    /\ kind = None /\ topK = 0 /\ session = <<>> /\ ctx = None
    /\ net = NeverFails /\ client = NoClient /\ lastInput = None
    /\ cl_ret = NoReturn /\ cl_http = 0 /\ cl_calls = 0 /\ cl_unreach = FALSE
    /\ SplitIdle
    /\ ReduceIdle /\ GatherIdle /\ MainIdle
    /\ RetryIdle /\ SamplingIdle /\ CacheIdle
    /\ RejectIdle /\ DbIdle /\ PolicyIdle
    /\ \E n \in StoredSizes :
         /\ sv_rows = Stored(n) /\ sv_points = Stored(n) /\ sv_next = n
    /\ sv_resp = NoRequest
    /\ sv_reqs = 0
    /\ sv_run = EmptyBag

ServiceFrame ==
    UNCHANGED <<kind, topK, session, ctx, client, net, lastInput,
                clientVars, splitVars, reduceVars, gatherVars, mainVars,
                retryVars, samplingVars, cacheVars, rejectVars, dbVars,
                policyVars>>

(* A request arrives *)
Arrives == sv_reqs < MaxRequests /\ sv_reqs' = sv_reqs + 1

(* The handlers under way at step pc of the endpoint op *)
At(op, pc) == {h \in BagToSet(sv_run) : h.op = op /\ h.pc = pc}

(* The request is answered *)
Answer(response) == sv_resp' = [response EXCEPT !.n = sv_resp.n + 1]

(* A handler starts, goes on as another, ends *)
Starts(handler) == sv_run' = sv_run (+) SetToBag({handler})
Moves(h, handler) ==
    sv_run' = (sv_run (-) SetToBag({h})) (+) SetToBag({handler})
Leaves(h) == sv_run' = sv_run (-) SetToBag({h})

(* POST /message: _persist_message up to client.upsert *)
PostMessage ==
    /\ Arrives
    /\ \E msg \in [conversation_id : Conversations, role : MessageRoles,
                   text : MessageTexts, timestamp : MessageTimestamps],
          fault \in {"none", "embedding", "upsert"} :
         \E p \in {persist_upsert(msg, sv_points, sv_next,
                                  IF fault = "embedding" THEN 2 ELSE 1,
                                  fault)} :
           /\ sv_points' = p.points
           /\ sv_next' = p.next
           /\ IF p.status # 0
              THEN /\ Answer([op |-> "message", status |-> p.status,
                              conversation_id |-> msg.conversation_id,
                              role |-> msg.role, id |-> 0, n |-> 0])
                   /\ UNCHANGED sv_run
              ELSE /\ Starts([pc |-> "commit", op |-> "message",
                              record |-> p.record])
                   /\ UNCHANGED sv_resp
    /\ UNCHANGED sv_rows
    /\ ServiceFrame

(* POST /message: db.add(record); db.commit(); the answer *)
PostMessageCommit ==
    \E h \in At("message", "commit"), fault \in {"none", "commit"} :
      /\ \E c \in {persist_commit(h.record, sv_rows, fault)} :
           /\ sv_rows' = c.rows
           /\ Answer([op |-> "message", status |-> c.status,
                      conversation_id |-> h.record.conversation_id,
                      role |-> h.record.role, id |-> c.id, n |-> 0])
      /\ Leaves(h)
      /\ UNCHANGED <<sv_points, sv_next, sv_reqs>>
      /\ ServiceFrame

(* The answer of POST /generate: GenerateResponse(reply=reply,             *)
(* backend=backend_name) or the error, with the prompt that was built      *)
GenerateAnswer(status, conversation_id, backend, fault, g, reply) ==
    [op |-> "generate", status |-> status,
     conversation_id |-> conversation_id,
     backend |-> backend, failed |-> fault = "backend",
     history |-> g.history, prompt |-> g.prompt,
     reply |-> IF status = 200 THEN reply ELSE "", n |-> 0]

(* POST /generate: the history query and the prompt built from it *)
PostGenerate ==
    /\ Arrives
    /\ \E request \in [conversation_id : Conversations,
                       prompt : MessageTexts, backend : BackendNames] :
         \E history_rows \in
               by_timestamp(of_conversation(sv_rows,
                                            request.conversation_id)) :
           Starts([pc |-> "backend", op |-> "generate", request |-> request,
                   g |-> generate(request, history_rows)])
    /\ UNCHANGED <<sv_rows, sv_points, sv_next, sv_resp>>
    /\ ServiceFrame

(* POST /generate: backends.generate_with_backend returns or raises, some  *)
(* time after the history query                                            *)
PostGenerateBackend ==
    \E h \in At("generate", "backend"), fault \in {"none", "backend"},
       reply \in BackendReplies :
      /\ \E a \in {generate_with_backend(backend_name(h.request), h.g.prompt,
                                         fault, reply)} :
           IF a.raised # None
           THEN /\ Answer(GenerateAnswer(500, h.request.conversation_id,
                                         backend_name(h.request), fault,
                                         h.g, ""))
                /\ Leaves(h)
           ELSE /\ Moves(h, [pc |-> "upsert", op |-> "generate",
                             conversation_id |-> h.request.conversation_id,
                             backend |-> backend_name(h.request), g |-> h.g,
                             reply |-> a.reply])
                /\ UNCHANGED sv_resp
      /\ UNCHANGED <<sv_rows, sv_points, sv_next, sv_reqs>>
      /\ ServiceFrame

(* POST /generate: _persist_message(assistant_message, ...) up to          *)
(* client.upsert                                                           *)
PostGenerateUpsert ==
    \E h \in At("generate", "upsert"),
       fault \in {"none", "embedding", "upsert"} :
      /\ \E p \in {persist_upsert(
                       assistant_message(h.conversation_id, h.reply),
                       sv_points, sv_next,
                       IF fault = "embedding" THEN 2 ELSE 1, fault)} :
           /\ sv_points' = p.points
           /\ sv_next' = p.next
           /\ IF p.status # 0
              THEN /\ Answer(GenerateAnswer(p.status, h.conversation_id,
                                            h.backend, fault, h.g, h.reply))
                   /\ Leaves(h)
              ELSE /\ Moves(h, [pc |-> "commit", op |-> "generate",
                                conversation_id |-> h.conversation_id,
                                backend |-> h.backend, g |-> h.g,
                                reply |-> h.reply, record |-> p.record])
                   /\ UNCHANGED sv_resp
      /\ UNCHANGED <<sv_rows, sv_reqs>>
      /\ ServiceFrame

(* POST /generate: db.add(record); db.commit(); the answer *)
PostGenerateCommit ==
    \E h \in At("generate", "commit"), fault \in {"none", "commit"} :
      /\ \E c \in {persist_commit(h.record, sv_rows, fault)} :
           /\ sv_rows' = c.rows
           /\ Answer(GenerateAnswer(c.status, h.conversation_id, h.backend,
                                    fault, h.g, h.reply))
      /\ Leaves(h)
      /\ UNCHANGED <<sv_points, sv_next, sv_reqs>>
      /\ ServiceFrame

(* The answer of DELETE /conversation/{conversation_id} *)
DeleteAnswer(status, conversation_id, ids) ==
    [op |-> "delete", status |-> status, conversation_id |-> conversation_id,
     deleted_ids |-> ids, n |-> 0]

(* DELETE /conversation/{conversation_id}: the query of the ids *)
DeleteConversation ==
    /\ Arrives
    /\ \E conversation_id \in Conversations :
         \E ids \in {ids_read(conversation_id, sv_rows)} :
           IF ids = {}
           THEN /\ Answer(DeleteAnswer(200, conversation_id, ids))
                /\ UNCHANGED sv_run
           ELSE /\ Starts([pc |-> "delete", op |-> "delete",
                           conversation_id |-> conversation_id, ids |-> ids])
                /\ UNCHANGED sv_resp
    /\ UNCHANGED <<sv_rows, sv_points, sv_next>>
    /\ ServiceFrame

(* DELETE /conversation/{conversation_id}: client.delete(points=ids) *)
DeleteConversationPoints ==
    \E h \in At("delete", "delete"), fault \in {"none", "delete"} :
      /\ IF fault = "delete"
         THEN /\ Answer(DeleteAnswer(500, h.conversation_id, {}))
              /\ Leaves(h)
              /\ UNCHANGED sv_points
         ELSE /\ sv_points' = delete_points(sv_points, h.ids)
              /\ Moves(h, [h EXCEPT !.pc = "commit"])
              /\ UNCHANGED sv_resp
      /\ UNCHANGED <<sv_rows, sv_next, sv_reqs>>
      /\ ServiceFrame

(* DELETE /conversation/{conversation_id}: the delete of the rows,         *)
(* db.commit() and the answer                                              *)
DeleteConversationCommit ==
    \E h \in At("delete", "commit"), fault \in {"none", "commit"} :
      /\ IF fault = "commit"
         THEN /\ Answer(DeleteAnswer(500, h.conversation_id, {}))
              /\ UNCHANGED sv_rows
         ELSE /\ sv_rows' = delete_rows(sv_rows, h.ids)
              /\ Answer(DeleteAnswer(200, h.conversation_id, h.ids))
      /\ Leaves(h)
      /\ UNCHANGED <<sv_points, sv_next, sv_reqs>>
      /\ ServiceFrame

NextService ==
    \/ PostMessage \/ PostMessageCommit
    \/ PostGenerate \/ PostGenerateBackend
    \/ PostGenerateUpsert \/ PostGenerateCommit
    \/ DeleteConversation \/ DeleteConversationPoints
    \/ DeleteConversationCommit

SpecService == InitService /\ [][NextService]_vars

ids_of(records) == {r.id : r \in records}

(* This step answers a request of the endpoint op *)
Answers(op) == sv_resp'.n = sv_resp.n + 1 /\ sv_resp'.op = op

(* The DELETE handlers that take a step here *)
DeleteSteps ==
    {h \in BagToSet(sv_run) :
        h.op = "delete" /\ CopiesIn(h, sv_run') < CopiesIn(h, sv_run)}

(* The records of the other conversations *)
others(records, conversation_id) ==
    {r \in records : r.conversation_id # conversation_id}

(* C22: a POST /message whose role is neither "user" nor "assistant" is    *)
(* answered with status 400, and the table and the index are as before it. *)
C22_BadRoleRejected ==
    [][(Answers("message") /\ sv_resp'.role \notin {"user", "assistant"})
         => /\ sv_resp'.status = 400
            /\ sv_rows' = sv_rows /\ sv_points' = sv_points]_vars

(* A message of role "system" was answered after one was stored in the     *)
(* same conversation.                                                      *)
C22_Witness ==
    /\ sv_reqs = 2 /\ sv_resp.op = "message" /\ sv_resp.role = "system"
    /\ sv_resp.status = 400
    /\ \E r \in sv_rows :
         /\ r.id = sv_next /\ r.timestamp = Now
         /\ r.conversation_id = sv_resp.conversation_id

(* C23: when DELETE /conversation/{id} is answered with success, no record *)
(* of the conversation remains in the table or in the index, deleted_ids   *)
(* are the ids of the rows the request removed, and no step of the request *)
(* touches a record of another conversation.                               *)
C23_DeleteRemovesConversation ==
    [][/\ (Answers("delete") /\ sv_resp'.status = 200)
            => /\ of_conversation(sv_rows', sv_resp'.conversation_id) = {}
               /\ of_conversation(sv_points', sv_resp'.conversation_id) = {}
               /\ sv_resp'.deleted_ids = ids_of(sv_rows) \ ids_of(sv_rows')
       /\ \A h \in DeleteSteps :
            /\ others(sv_rows', h.conversation_id)
                  = others(sv_rows, h.conversation_id)
            /\ others(sv_points', h.conversation_id)
                  = others(sv_points, h.conversation_id)]_vars

(* What holds of a DELETE answered with success: the ids it returns are    *)
(* in neither store any more, they were ids of the conversation, and every *)
(* step of it leaves the records of the other conversations alone.         *)
C23_DeletedIdsAreGone ==
    [][/\ (Answers("delete") /\ sv_resp'.status = 200)
            => sv_resp'.deleted_ids
                   \cap (ids_of(sv_rows') \cup ids_of(sv_points')) = {}
       /\ \A h \in DeleteSteps :
            /\ others(sv_rows', h.conversation_id)
                  = others(sv_rows, h.conversation_id)
            /\ others(sv_points', h.conversation_id)
                  = others(sv_points, h.conversation_id)
            /\ ids_of(sv_rows) \ ids_of(sv_rows') \subseteq h.ids
            /\ ids_of(sv_points) \ ids_of(sv_points') \subseteq h.ids]_vars

(* C28: after every answered request, no other request being under way,    *)
(* the ids in the table and the ids in the index are the same set.         *)
C28_StoresHoldSameIds ==
    (sv_resp.n > 0 /\ sv_run = EmptyBag)
      => ids_of(sv_rows) = ids_of(sv_points)

(* The ids that handlers under way have written to one store only *)
written_ahead(run) ==
    {h.record.id : h \in {k \in BagToSet(run) :
                             k.pc = "commit" /\ k.op # "delete"}}

removed_ahead(run) ==
    UNION {h.ids : h \in {k \in BagToSet(run) :
                             k.pc = "commit" /\ k.op = "delete"}}

(* The two stores differ only by what the handlers under way have yet to   *)
(* commit.                                                                 *)
InStep(rows, points, run) ==
    /\ ids_of(points) \ ids_of(rows) = written_ahead(run)
    /\ ids_of(rows) \ ids_of(points) \subseteq removed_ahead(run)

(* What holds instead: the stores differ only by what handlers under way   *)
(* have yet to commit, for as long as no answer has status 500.            *)
C28_SameIdsUnlessAStoreFails ==
    [][(InStep(sv_rows, sv_points, sv_run)
          /\ ~(sv_resp'.n # sv_resp.n /\ sv_resp'.status = 500))
         => InStep(sv_rows', sv_points', sv_run')]_vars

(* The history h and the prompt q of a generate request of prompt u on     *)
(* conversation c are those of the table rows                              *)
from_last_rows(h, q, c, u, rows) ==
    /\ Len(h) <= HistoryLimit
    /\ Len(h) = IF Cardinality(of_conversation(rows, c)) > HistoryLimit
                THEN HistoryLimit
                ELSE Cardinality(of_conversation(rows, c))
    /\ \A i \in DOMAIN h : h[i] \in rows /\ h[i].conversation_id = c
    /\ Cardinality({h[i].id : i \in DOMAIN h}) = Len(h)
    /\ \A i \in 1 .. Len(h) - 1 : h[i].timestamp <= h[i + 1].timestamp
    /\ \A r \in of_conversation(rows, c) \ {h[i] : i \in DOMAIN h} :
         r.timestamp <= h[1].timestamp
    /\ Len(q) = (IF h = <<>> THEN 1 ELSE Len(h)) + 2
    /\ \A i \in DOMAIN h : q[i] = <<h[i].role, ": ", h[i].text>>
    /\ q[Len(q) - 1] = <<"user", ": ", u>>
    /\ q[Len(q)] = <<"assistant", ":">>

(* The generate handlers that take a step here *)
GenerateSteps(pc) ==
    {h \in BagToSet(sv_run) :
        h.op = "generate" /\ h.pc = pc
          /\ CopiesIn(h, sv_run') < CopiesIn(h, sv_run)}

(* C24: POST /generate builds its prompt from the last HistoryLimit rows   *)
(* at most that the conversation has when the request queries it, oldest   *)
(* first, followed by the user's prompt and the cue of the assistant, and  *)
(* that is the prompt of the answer whatever is stored while the backend   *)
(* works; when the backend fails or is unknown the answer is an error and  *)
(* nothing is stored; an answer of success adds one record, the reply as   *)
(* an assistant message of the conversation under a new id, to the table,  *)
(* the index holding it too.                                               *)
C24_GenerateFromLastTwenty ==
    [][/\ sv_reqs' # sv_reqs
            => \A h \in BagToSet(sv_run') :
                 (h.pc = "backend"
                    /\ CopiesIn(h, sv_run') > CopiesIn(h, sv_run))
                   => /\ from_last_rows(h.g.history, h.g.prompt,
                                        h.request.conversation_id,
                                        h.request.prompt, sv_rows)
                      /\ sv_rows' = sv_rows /\ sv_points' = sv_points
                      /\ sv_resp' = sv_resp
       /\ \A h \in GenerateSteps("backend") :
            /\ sv_rows' = sv_rows /\ sv_points' = sv_points
            /\ IF sv_resp'.n # sv_resp.n
               THEN /\ sv_resp'.op = "generate"
                    /\ sv_resp'.status # 200
                    /\ sv_resp'.failed
                         \/ sv_resp'.backend \notin {"ollama", "OpenAI"}
               ELSE /\ h.request.backend \in {None, "", "OpenAI"}
                    /\ \E k \in BagToSet(sv_run') :
                         /\ k.pc = "upsert" /\ k.op = "generate"
                         /\ k.g = h.g
                         /\ k.conversation_id = h.request.conversation_id
                         /\ k.backend = IF h.request.backend = "OpenAI"
                                        THEN "OpenAI" ELSE "ollama"
                         /\ k.reply \in BackendReplies
                         /\ CopiesIn(k, sv_run') > CopiesIn(k, sv_run)
       /\ Answers("generate")
            => \E h \in GenerateSteps("backend")
                          \cup GenerateSteps("upsert")
                          \cup GenerateSteps("commit") :
                 /\ sv_resp'.history = h.g.history
                 /\ sv_resp'.prompt = h.g.prompt
                 /\ sv_resp'.conversation_id
                       = IF h.pc = "backend" THEN h.request.conversation_id
                         ELSE h.conversation_id
                 /\ sv_resp'.status = 200 => sv_resp'.reply = h.reply
       /\ (Answers("generate") /\ sv_resp'.status = 200)
            => \E r \in sv_rows' \ sv_rows :
                 /\ sv_rows' = sv_rows \cup {r}
                 /\ r.id \notin ids_of(sv_rows)
                 /\ r \in sv_points'
                 /\ r.conversation_id = sv_resp'.conversation_id
                 /\ r.role = "assistant"
                 /\ r.text = sv_resp'.reply
                 /\ r.text \in BackendReplies
       /\ (Answers("generate") /\ sv_resp'.status # 200)
            => sv_rows' = sv_rows]_vars

(* A generate on a conversation of more than HistoryLimit rows was         *)
(* answered with success, and a user message that was stored while the     *)
(* request was under way is in the table and not in the history.           *)
C24_Witness ==
    /\ sv_resp.op = "generate" /\ sv_resp.status = 200
    /\ Len(sv_resp.history) = HistoryLimit
    /\ Len(sv_resp.prompt) = HistoryLimit + 2
    /\ Cardinality(of_conversation(sv_rows, sv_resp.conversation_id))
           > HistoryLimit + 1
    /\ \E r \in sv_rows : r.text = sv_resp.reply /\ r.role = "assistant"
                            /\ r.id > HistoryLimit + 1
    /\ \E r \in of_conversation(sv_rows, sv_resp.conversation_id) :
         /\ r.role = "user" /\ r.timestamp = Now
         /\ \A i \in DOMAIN sv_resp.history : sv_resp.history[i] # r

=============================================================================
